---------------------------- MODULE Spec2Model ----------------------------
(***************************************************************************)
(* A model of the storage-engine core of bustub: the extendible hash       *)
(* table, the LRU-K replacer, the buffer pool manager and the B+ tree      *)
(* index with its iterator.  Every component has its own specification     *)
(* (SpecEHT, SpecLRU, SpecBPM, SpecTree); the variables of the other       *)
(* components keep their initial value under it.                           *)
(***************************************************************************)
EXTENDS Integers, Sequences, FiniteSets, TLC

VARIABLES
    eht,        \* the ExtendibleHashTable<int, int> object
    eht_last,   \* history: key -> {value of the last Insert(key, _)}, {} after a Remove(key)
    eht_ret,    \* the last hash table call: its name, key and value
    eht_run,    \* the test or the threads that make the hash table calls, and how far they are
    rep,        \* the LRUKReplacer object
    rep_ret,    \* the last replacer call and what it returned
    rep_dropped, \* history: the frame ids Evict and Remove have stopped tracking
    bpm,        \* the BufferPoolManagerInstance object and the disk behind it
    bpm_ret,    \* the last buffer pool call and what it returned
    bpm_promised, \* history: page id -> {the bytes an UnpinPage(id, true) left in the page}
    bpm_flush,  \* the FlushAllPages call in progress: where its loop over the page ids stands
    tree,       \* the BPlusTree object, the buffer pool it works on, and its last call
    iter,       \* the IndexIterator of the client's loop, and where the loop stands
    tree_thread, \* the Insert call of a second thread: its local variables, where it stands
    tree_hist   \* history: what the Insert and Remove calls so far promise, what the loop visited

vars == <<eht, eht_last, eht_ret, eht_run, rep, rep_ret, rep_dropped, bpm, bpm_ret, bpm_promised, bpm_flush,
         tree, iter, tree_thread, tree_hist>>
treeVars == <<tree, iter, tree_thread, tree_hist>>
ehtVars == <<eht, eht_last, eht_ret, eht_run>>
repVars == <<rep, rep_ret, rep_dropped>>
bpmVars == <<bpm, bpm_ret, bpm_promised, bpm_flush>>

\* the value of a function on its only argument: Val([x \in {v} |-> e]) is e with
\* x standing for v, the value a local variable of the code holds
Val(f) == f[CHOOSE a \in DOMAIN f : TRUE]

\* the function f, tabulated
Built(f) == f @@ f

(***************************************************************************)
(* Bit operations on non-negative ints, as the C++ operators compute them. *)
(***************************************************************************)
RECURSIVE Pow2(_)
Pow2(n) == IF n = 0 THEN 1 ELSE 2 * Pow2(n - 1)

\* x & (bit - 1) for bit = 1 << depth
LowBits(x, bit) == x % bit

BitIsSet(x, bit) == (x \div bit) % 2 = 1

\* x | bit for bit = 1 << b
SetBit(x, bit) == IF BitIsSet(x, bit) THEN x ELSE x + bit

\* x & ~bit for bit = 1 << b
ClearBit(x, bit) == IF BitIsSet(x, bit) THEN x - bit ELSE x

(***************************************************************************)
(* EXTENDIBLE HASH TABLE  (src/src/container/hash/extendible_hash_table.cpp)*)
(*                                                                         *)
(* dir is the vector dir_ (slot i is dir[i + 1]); a shared_ptr<Bucket> is  *)
(* the index of the bucket in buckets, every make_shared appending one.    *)
(* A bucket is [depth, list], list the std::list of <<key, value>> pairs.  *)
(* stuck is set when one Insert call has split MaxSplits times without     *)
(* storing the entry: the recursion of Insert has not returned.            *)
(***************************************************************************)
MaxSplits == 5
EhtKeys == {0, 1, 8, 11}
EhtValues == {1, 2}
BucketSizes == {1, 2}
PageTableBucketSize == 4

\* std::hash<int> is the identity
Hash(key) == key

IndexOf(t, key) == LowBits(Hash(key), Pow2(t.global_depth))

IndexOfDepth(key, depth) == LowBits(Hash(key), Pow2(depth))

BucketAt(t, idx) == t.buckets[t.dir[idx + 1]]

\* Bucket::Find: <<the return value, value>>, value the caller's variable, here
\* with what it held before the call
RECURSIVE BucketFind(_, _, _)
BucketFind(list, key, value) ==
    IF list = <<>> THEN <<FALSE, value>>
    ELSE IF Head(list)[1] = key THEN <<TRUE, Head(list)[2]>>
    ELSE BucketFind(Tail(list), key, value)

BucketExists(list, key) == \E i \in 1 .. Len(list) : list[i][1] = key

BucketIsFull(t, b) == Len(b.list) = t.bucket_size

RECURSIVE ListRemove(_, _)
ListRemove(list, key) ==
    IF list = <<>> THEN <<>>
    ELSE IF Head(list)[1] = key THEN Tail(list)
    ELSE <<Head(list)>> \o ListRemove(Tail(list), key)

BucketInsert(t, b, key, value) ==
    IF BucketExists(b.list, key)
    THEN [b EXCEPT !.list = Built([i \in 1 .. Len(b.list) |->
                                IF i = (CHOOSE j \in 1 .. Len(b.list) :
                                            /\ b.list[j][1] = key
                                            /\ \A h \in 1 .. j - 1 : b.list[h][1] # key)
                                THEN <<key, value>> ELSE b.list[i]])]
    ELSE IF Len(b.list) = t.bucket_size THEN b
    ELSE [b EXCEPT !.list = Append(b.list, <<key, value>>)]

EhtFind(t, key, value) == BucketFind(BucketAt(t, IndexOf(t, key)).list, key, value)

\* what Find reports for key: the set holding the value found, or the empty set
EhtLookup(t, key) ==
    Val([res \in {EhtFind(t, key, 0)} |-> IF res[1] THEN {res[2]} ELSE {}])

EhtRemove(t, key) ==
    [t EXCEPT !.buckets[t.dir[IndexOf(t, key) + 1]].list = ListRemove(@, key)]

\* what Remove returns: whether Bucket::Remove met the key in the bucket of its slot
EhtRemoveRet(t, key) == BucketExists(BucketAt(t, IndexOf(t, key)).list, key)

\* the split without its redistribute loop: every item stays in the old bucket
Redistribute_LeavesItems(t, items, idx, local_depth) == t

\* the loop "Redistribute kv pairs in the bucket" over the copied items
RECURSIVE Redistribute(_, _, _, _)
Redistribute(t, items, idx, local_depth) ==
    IF items = <<>> THEN t
    ELSE (LET new_idx == IndexOfDepth(Head(items)[1], local_depth) IN
         Val([removed \in {[t EXCEPT !.buckets[t.dir[idx + 1]].list = ListRemove(@, Head(items)[1])]} |->
         Redistribute(IF new_idx # idx
                      THEN [removed EXCEPT !.buckets[removed.dir[new_idx + 1]] =
                               BucketInsert(removed, @, Head(items)[1], Head(items)[2])]
                      ELSE t,
                      Tail(items), idx, local_depth)]))

\* EhtSplit giving the new bucket one level of depth too many
EhtSplit_NewBucketTooDeep(t, key) ==
    (LET old_depth == BucketAt(t, IndexOf(t, key)).depth IN
    (LET idx == IF old_depth = t.global_depth THEN IndexOf(t, key) ELSE IndexOfDepth(key, old_depth) IN
    (LET new_bucket_idx == SetBit(idx, Pow2(old_depth)) IN
    (LET local_bit == Pow2(old_depth + 1) IN
    (LET global_bit == Pow2(t.global_depth) IN
    Val([doubled \in {IF old_depth = t.global_depth
                      THEN [t EXCEPT !.dir = Built([i \in 1 .. 2 * Len(t.dir) |->
                                                 IF i <= Len(t.dir) THEN t.dir[i]
                                                 ELSE t.dir[ClearBit(i - 1, global_bit) + 1]]),
                                     !.global_depth = @ + 1]
                      ELSE t} |->
    Val([alloc \in {[doubled EXCEPT !.buckets = Append(@, [depth |-> old_depth + 2, list |-> <<>>]),
                                    !.dir[new_bucket_idx + 1] = Len(t.buckets) + 1]} |->
    Val([inc \in {[alloc EXCEPT !.buckets[alloc.dir[idx + 1]].depth = @ + 1,
                                !.num_buckets = @ + 1]} |->
    Val([linked \in {[inc EXCEPT !.dir = Built([i \in 1 .. Len(inc.dir) |->
                                             IF ClearBit(i - 1, local_bit) = new_bucket_idx
                                             THEN inc.dir[new_bucket_idx + 1]
                                             ELSE inc.dir[i]])]} |->
        Redistribute(linked, BucketAt(linked, idx).list, idx, old_depth + 1)])])])]))))))

\* the body of "if (dir_[idx]->IsFull())" up to the recursive call; old_depth is
\* local_depth before its increment
EhtSplit(t, key) ==
    (LET old_depth == BucketAt(t, IndexOf(t, key)).depth IN
    (LET idx == IF old_depth = t.global_depth THEN IndexOf(t, key) ELSE IndexOfDepth(key, old_depth) IN
    (LET new_bucket_idx == SetBit(idx, Pow2(old_depth)) IN
    (LET local_bit == Pow2(old_depth + 1) IN
    (LET global_bit == Pow2(t.global_depth) IN
    Val([doubled \in {IF old_depth = t.global_depth
                      THEN [t EXCEPT !.dir = Built([i \in 1 .. 2 * Len(t.dir) |->
                                                 IF i <= Len(t.dir) THEN t.dir[i]
                                                 ELSE t.dir[ClearBit(i - 1, global_bit) + 1]]),
                                     !.global_depth = @ + 1]
                      ELSE t} |->
    Val([alloc \in {[doubled EXCEPT !.buckets = Append(@, [depth |-> old_depth + 1, list |-> <<>>]),
                                    !.dir[new_bucket_idx + 1] = Len(t.buckets) + 1]} |->
    Val([inc \in {[alloc EXCEPT !.buckets[alloc.dir[idx + 1]].depth = @ + 1,
                                !.num_buckets = @ + 1]} |->
    Val([linked \in {[inc EXCEPT !.dir = Built([i \in 1 .. Len(inc.dir) |->
                                             IF ClearBit(i - 1, local_bit) = new_bucket_idx
                                             THEN inc.dir[new_bucket_idx + 1]
                                             ELSE inc.dir[i]])]} |->
        Redistribute(linked, BucketAt(linked, idx).list, idx, old_depth + 1)])])])]))))))

\* Insert calls itself after every split; entry is the table the outermost call
\* was made on, kept (with stuck set) when the recursion does not end in MaxSplits
\* splits
RECURSIVE EhtInsertFuel(_, _, _, _, _)
EhtInsertFuel(t, key, value, fuel, entry) ==
    IF BucketIsFull(t, BucketAt(t, IndexOf(t, key)))
    THEN IF fuel = 0 THEN [entry EXCEPT !.stuck = TRUE]
         ELSE EhtInsertFuel(EhtSplit(t, key), key, value, fuel - 1, entry)
    ELSE [t EXCEPT !.buckets[t.dir[IndexOf(t, key) + 1]] = BucketInsert(t, @, key, value)]

EhtInsert(t, key, value) == EhtInsertFuel(t, key, value, MaxSplits, t)

EhtNew(bucket_size) ==
    [global_depth |-> 0, bucket_size |-> bucket_size, num_buckets |-> 1,
     dir |-> <<1>>, buckets |-> <<[depth |-> 0, list |-> <<>>]>>, stuck |-> FALSE]

(***************************************************************************)
(* The hash table tests: the calls each test makes, in its order           *)
(***************************************************************************)
TestInsert(key, value) == [op |-> "Insert", key |-> key, value |-> value]
TestFind(key) == [op |-> "Find", key |-> key, value |-> ""]
TestRemove(key) == [op |-> "Remove", key |-> key, value |-> ""]

SampleTest ==
    <<TestInsert(1, "a"), TestInsert(2, "b"), TestInsert(3, "c"), TestInsert(4, "d"),
      TestInsert(5, "e"), TestInsert(6, "f"), TestInsert(7, "g"), TestInsert(8, "h"),
      TestInsert(9, "i"),
      TestFind(9), TestFind(8), TestFind(2), TestFind(10),
      TestRemove(8), TestRemove(4), TestRemove(1), TestRemove(20)>>

InsertSplitTest ==
    <<TestInsert(1, "a"), TestInsert(2, "b"), TestInsert(3, "c"), TestInsert(4, "d"),
      TestInsert(5, "e"), TestInsert(6, "f")>>

LocalDepthTest ==
    <<TestInsert(4, "a"), TestInsert(12, "b"), TestInsert(16, "c"), TestInsert(64, "d"),
      TestInsert(5, "e"), TestInsert(10, "f"), TestInsert(51, "f"), TestInsert(15, "f"),
      TestInsert(18, "f"), TestInsert(20, "f"), TestInsert(7, "f"), TestInsert(21, "f"),
      TestInsert(11, "f"), TestInsert(19, "f")>>

GetNumBucketsTest ==
    <<TestInsert(4, "a"), TestInsert(12, "b"), TestInsert(16, "c"), TestInsert(64, "d"),
      TestInsert(31, "e"), TestInsert(10, "f"), TestInsert(51, "f"), TestInsert(15, "f"),
      TestInsert(18, "f"), TestInsert(20, "f"), TestInsert(7, "f"), TestInsert(23, "f")>>

EhtTests == {"SampleTest", "InsertSplitTest", "LocalDepthTest", "GetNumBucketsTest"}

TestCalls(test) ==
    CASE test = "SampleTest" -> SampleTest
      [] test = "InsertSplitTest" -> InsertSplitTest
      [] test = "LocalDepthTest" -> LocalDepthTest
      [] test = "GetNumBucketsTest" -> GetNumBucketsTest

\* the bucket size the test makes its table with
TestBucketSize(test) == IF test \in {"SampleTest", "InsertSplitTest"} THEN 2 ELSE 4

TestKeys == UNION {{TestCalls(test)[n].key : n \in 1 .. Len(TestCalls(test))} : test \in EhtTests}

\* a table that has been in use: bucket size 1, Insert(0, 1), Insert(23, 1) and
\* Insert(16, 1), which takes the global depth to 5 while the bucket of the odd
\* keys stays at local depth 1; AgedCallKeys are the keys of the client's calls on it
AgedInserted == {0, 23, 16}
AgedCallKeys == {1, 7, 15}
AgedTable == EhtInsert(EhtInsert(EhtInsert(EhtNew(1), 0, 1), 23, 1), 16, 1)

EhtHistoryNew == [k \in EhtKeys \cup TestKeys \cup AgedInserted \cup AgedCallKeys \cup (0 .. 9) |-> {}]

AgedHistory == [k \in DOMAIN EhtHistoryNew |-> IF k \in AgedInserted THEN {1} ELSE {}]

EhtRetNew == [op |-> "none", key |-> 0, value |-> 0, ok |-> TRUE]

\* no test is running: the calls are the client's
EhtRunNew == [test |-> "none", pos |-> 0, keys |-> EhtKeys]

EhtInsertCall ==
    /\ eht_run.test = "none"
    /\ ~eht.stuck
    /\ \E k \in eht_run.keys, v \in EhtValues :
          /\ eht' = EhtInsert(eht, k, v)
          /\ eht_last' = [eht_last EXCEPT ![k] = {v}]
          /\ eht_ret' = [op |-> "Insert", key |-> k, value |-> v, ok |-> TRUE]
    /\ UNCHANGED <<eht_run, repVars, bpmVars, treeVars>>

EhtRemoveCall ==
    /\ eht_run.test = "none"
    /\ ~eht.stuck
    /\ \E k \in eht_run.keys :
          /\ eht' = EhtRemove(eht, k)
          /\ eht_last' = [eht_last EXCEPT ![k] = {}]
          /\ eht_ret' = [op |-> "Remove", key |-> k, value |-> 0, ok |-> EhtRemoveRet(eht, k)]
    /\ UNCHANGED <<eht_run, repVars, bpmVars, treeVars>>

\* the next call of the running test; a Find leaves in value what it found, or
\* the empty string the test's variable holds before its first Find
EhtTestCall ==
    /\ eht_run.test \in EhtTests
    /\ ~eht.stuck
    /\ eht_run.pos < Len(TestCalls(eht_run.test))
    /\ LET call == TestCalls(eht_run.test)[eht_run.pos + 1]
       IN  /\ eht_run' = [eht_run EXCEPT !.pos = @ + 1]
           /\ CASE call.op = "Insert" ->
                       /\ eht' = EhtInsert(eht, call.key, call.value)
                       /\ eht_last' = [eht_last EXCEPT ![call.key] = {call.value}]
                       /\ eht_ret' = [op |-> "Insert", key |-> call.key, value |-> call.value,
                                      ok |-> TRUE]
                [] call.op = "Find" ->
                       /\ eht_ret' = [op |-> "Find", key |-> call.key,
                                      value |-> EhtFind(eht, call.key, eht_ret.value)[2],
                                      ok |-> EhtFind(eht, call.key, eht_ret.value)[1]]
                       /\ UNCHANGED <<eht, eht_last>>
                [] call.op = "Remove" ->
                       /\ eht' = EhtRemove(eht, call.key)
                       /\ eht_last' = [eht_last EXCEPT ![call.key] = {}]
                       /\ eht_ret' = [op |-> "Remove", key |-> call.key, value |-> eht_ret.value,
                                      ok |-> EhtRemoveRet(eht, call.key)]
    /\ UNCHANGED <<repVars, bpmVars, treeVars>>

(***************************************************************************)
(* ConcurrentInsertTest: thread tid calls Insert(tid, tid)                 *)
(***************************************************************************)
NumThreads == 10

ThreadIds == 0 .. NumThreads - 1

ThreadBucketSize == 2

\* Insert between latch_.WLock() and latch_.WUnlock() without the retry: after a
\* split the pair goes to the bucket of its slot, full or not, and the call returns
InsertLocked_NoRetry(t, key, value) ==
    IF BucketIsFull(t, BucketAt(t, IndexOf(t, key)))
    THEN Val([split \in {EhtSplit(t, key)} |->
             [table |-> [split EXCEPT !.buckets[split.dir[IndexOf(split, key) + 1]] =
                                          BucketInsert(split, @, key, value)],
              returned |-> TRUE]])
    ELSE [table |-> [t EXCEPT !.buckets[t.dir[IndexOf(t, key) + 1]] = BucketInsert(t, @, key, value)],
          returned |-> TRUE]

\* Insert between latch_.WLock() and latch_.WUnlock(): one split of a full
\* bucket, after which the thread calls Insert again, or the store in the bucket
InsertLocked(t, key, value) ==
    IF BucketIsFull(t, BucketAt(t, IndexOf(t, key)))
    THEN [table |-> EhtSplit(t, key), returned |-> FALSE]
    ELSE [table |-> [t EXCEPT !.buckets[t.dir[IndexOf(t, key) + 1]] = BucketInsert(t, @, key, value)],
          returned |-> TRUE]

ThreadsNew == [test |-> "ConcurrentInsertTest", pos |-> 0, keys |-> {},
               pc |-> [tid \in ThreadIds |-> "Insert"]]

\* thread tid holds the write latch once
EhtThreadStep ==
    /\ eht_run.test = "ConcurrentInsertTest"
    /\ \E tid \in ThreadIds :
          /\ eht_run.pc[tid] = "Insert"
          /\ LET locked == InsertLocked(eht, tid, tid)
             IN  /\ eht' = locked.table
                 /\ eht_run' = [eht_run EXCEPT !.pc[tid] = IF locked.returned THEN "done" ELSE @]
                 /\ eht_last' = IF locked.returned THEN [eht_last EXCEPT ![tid] = {tid}]
                                ELSE eht_last
                 /\ eht_ret' = [op |-> "Insert", key |-> tid, value |-> tid, ok |-> locked.returned]
    /\ UNCHANGED <<repVars, bpmVars, treeVars>>
(***************************************************************************)
(* LRU-K REPLACER  (src/src/buffer/lru_k_replacer.cpp)                     *)
(*                                                                         *)
(* frame_map holds the evictable frames and non_evict_frames the others,   *)
(* each a map frame id -> the vector of its access timestamps.  aborted is *)
(* set when a BUSTUB_ASSERT fails.                                         *)
(***************************************************************************)
ReplacerFrames == 2
ReplacerK == 2
MaxTime == 7
INT32_MAX == 2147483647
INVALID_PAGE_ID == -1

MapPut(m, key, val) == Built([x \in DOMAIN m \cup {key} |-> IF x = key THEN val ELSE m[x]])

MapErase(m, key) == Built([x \in DOMAIN m \ {key} |-> m[x]])

EmptyMap == [x \in {} |-> <<>>]

ReplacerNew(num_frames, k) ==
    [replacer_size |-> num_frames, k |-> k, frame_map |-> EmptyMap,
     non_evict_frames |-> EmptyMap, curr_size |-> 0, current_timestamp |-> 0,
     aborted |-> FALSE]

\* Frame::FindKthPreviousTimestamp: the k-th element from the back
FindKthPreviousTimestamp(timestamps, k) == timestamps[Len(timestamps) - (k - 1)]

\* the loop of FindEarliestFrame over the vector frames, acc = <<earliest_frame, earliest_timestamp>>
RECURSIVE FindEarliestLoop(_, _, _)
FindEarliestLoop(r, frames, acc) ==
    IF frames = <<>> THEN acc
    ELSE LET ts0 == r.frame_map[Head(frames)][1]
         IN  FindEarliestLoop(r, Tail(frames),
                              IF ts0 < acc[2] THEN <<Head(frames), ts0>> ELSE acc)

\* FindEarliestFrame returning the first of the frames whatever their timestamps
FindEarliestFrame_First(r, frames) == frames[1]

FindEarliestFrame(r, frames) == FindEarliestLoop(r, frames, <<INVALID_PAGE_ID, INT32_MAX>>)[1]

\* the loop of FindEvictFrame over frame_map_ in the iteration order given,
\* acc = [largest_k_frames, largest_k_distance, frame_id]
RECURSIVE FindEvictLoop(_, _, _)
FindEvictLoop(r, order, acc) ==
    IF order = <<>> THEN acc
    ELSE LET f == Head(order)
             timestamps == r.frame_map[f]
             k_distance == r.current_timestamp - FindKthPreviousTimestamp(timestamps, r.k)
         IN  FindEvictLoop(r, Tail(order),
                IF Len(timestamps) < r.k
                THEN [acc EXCEPT !.largest_k_frames = Append(@, f)]
                ELSE IF k_distance > acc.largest_k_distance
                     THEN [acc EXCEPT !.largest_k_distance = k_distance, !.frame_id = f]
                     ELSE acc)

\* frame_id is the caller's variable, here with the value it had before the call
FindEvictFrame(r, order, frame_id) ==
    Val([acc \in {FindEvictLoop(r, order, [largest_k_frames |-> <<>>,
                                           largest_k_distance |-> 0, frame_id |-> frame_id])} |->
            IF Len(acc.largest_k_frames) = 1 THEN acc.largest_k_frames[1]
            ELSE IF Len(acc.largest_k_frames) > 1
            THEN FindEarliestFrame(r, acc.largest_k_frames)
            ELSE acc.frame_id])

\* Evict: <<the replacer after the call, the return value, *frame_id>>
ReplacerEvict(r, order, frame_id) ==
    Val([ticked \in {[r EXCEPT !.current_timestamp = @ + 1]} |->
        IF DOMAIN r.frame_map = {}
        THEN <<ticked, FALSE, frame_id>>
        ELSE Val([victim \in {FindEvictFrame(ticked, order, frame_id)} |->
                 <<[ticked EXCEPT !.frame_map = MapErase(@, victim), !.curr_size = @ - 1],
                   TRUE, victim>>])])

\* ReplacerRecordAccess that starts tracking a frame as not evictable
ReplacerRecordAccess_NotEvictable(r, frame_id) ==
    LET ticked == [r EXCEPT !.current_timestamp = @ + 1]
        now == ticked.current_timestamp
    IN  IF frame_id > r.replacer_size THEN [r EXCEPT !.aborted = TRUE]
        ELSE IF frame_id \notin DOMAIN r.frame_map /\ frame_id \notin DOMAIN r.non_evict_frames
        THEN [ticked EXCEPT !.non_evict_frames = MapPut(@, frame_id, <<now>>)]
        ELSE IF frame_id \in DOMAIN r.frame_map
        THEN [ticked EXCEPT !.frame_map[frame_id] = Append(@, now)]
        ELSE [ticked EXCEPT !.non_evict_frames[frame_id] = Append(@, now)]

ReplacerRecordAccess(r, frame_id) ==
    LET ticked == [r EXCEPT !.current_timestamp = @ + 1]
        now == ticked.current_timestamp
    IN  IF frame_id > r.replacer_size THEN [r EXCEPT !.aborted = TRUE]
        ELSE IF frame_id \notin DOMAIN r.frame_map /\ frame_id \notin DOMAIN r.non_evict_frames
        THEN [ticked EXCEPT !.frame_map = MapPut(@, frame_id, <<now>>), !.curr_size = @ + 1]
        ELSE IF frame_id \in DOMAIN r.frame_map
        THEN [ticked EXCEPT !.frame_map[frame_id] = Append(@, now)]
        ELSE [ticked EXCEPT !.non_evict_frames[frame_id] = Append(@, now)]

\* ReplacerSetEvictable that makes a frame evictable with its last access only
ReplacerSetEvictable_FreshFrame(r, frame_id, set_evictable) ==
    LET ticked == [r EXCEPT !.current_timestamp = @ + 1]
    IN  IF frame_id > r.replacer_size THEN [r EXCEPT !.aborted = TRUE]
        ELSE IF frame_id \in DOMAIN r.frame_map /\ set_evictable = FALSE
        THEN [ticked EXCEPT !.non_evict_frames = MapPut(@, frame_id, r.frame_map[frame_id]),
                            !.frame_map = MapErase(@, frame_id),
                            !.curr_size = @ - 1]
        ELSE IF frame_id \in DOMAIN r.non_evict_frames /\ set_evictable = TRUE
        THEN [ticked EXCEPT !.frame_map =
                                MapPut(@, frame_id,
                                       <<r.non_evict_frames[frame_id][Len(r.non_evict_frames[frame_id])]>>),
                            !.non_evict_frames = MapErase(@, frame_id),
                            !.curr_size = @ + 1]
        ELSE ticked

ReplacerSetEvictable(r, frame_id, set_evictable) ==
    LET ticked == [r EXCEPT !.current_timestamp = @ + 1]
    IN  IF frame_id > r.replacer_size THEN [r EXCEPT !.aborted = TRUE]
        ELSE IF frame_id \in DOMAIN r.frame_map /\ set_evictable = FALSE
        THEN [ticked EXCEPT !.non_evict_frames = MapPut(@, frame_id, r.frame_map[frame_id]),
                            !.frame_map = MapErase(@, frame_id),
                            !.curr_size = @ - 1]
        ELSE IF frame_id \in DOMAIN r.non_evict_frames /\ set_evictable = TRUE
        THEN [ticked EXCEPT !.frame_map = MapPut(@, frame_id, r.non_evict_frames[frame_id]),
                            !.non_evict_frames = MapErase(@, frame_id),
                            !.curr_size = @ + 1]
        ELSE ticked

\* ReplacerRemove that keeps the access history of the frame it removes
ReplacerRemove_KeepsHistory(r, frame_id) ==
    LET ticked == [r EXCEPT !.current_timestamp = @ + 1]
    IN  IF frame_id > r.replacer_size THEN [r EXCEPT !.aborted = TRUE]
        ELSE IF frame_id \in DOMAIN r.non_evict_frames THEN [ticked EXCEPT !.aborted = TRUE]
        ELSE IF frame_id \in DOMAIN r.frame_map
        THEN [ticked EXCEPT !.non_evict_frames = MapPut(@, frame_id, r.frame_map[frame_id]),
                            !.frame_map = MapErase(@, frame_id), !.curr_size = @ - 1]
        ELSE ticked

\* ReplacerRemove that removes a frame that is not evictable, too
ReplacerRemove_AnyFrame(r, frame_id) ==
    LET ticked == [r EXCEPT !.current_timestamp = @ + 1]
    IN  IF frame_id > r.replacer_size THEN [r EXCEPT !.aborted = TRUE]
        ELSE IF frame_id \in DOMAIN r.non_evict_frames
        THEN [ticked EXCEPT !.non_evict_frames = MapErase(@, frame_id)]
        ELSE IF frame_id \in DOMAIN r.frame_map
        THEN [ticked EXCEPT !.frame_map = MapErase(@, frame_id), !.curr_size = @ - 1]
        ELSE ticked

\* ReplacerRemove that erases the frame and keeps curr_size_
ReplacerRemove_KeepsSize(r, frame_id) ==
    LET ticked == [r EXCEPT !.current_timestamp = @ + 1]
    IN  IF frame_id > r.replacer_size THEN [r EXCEPT !.aborted = TRUE]
        ELSE IF frame_id \in DOMAIN r.non_evict_frames THEN [ticked EXCEPT !.aborted = TRUE]
        ELSE IF frame_id \in DOMAIN r.frame_map
        THEN [ticked EXCEPT !.frame_map = MapErase(@, frame_id)]
        ELSE ticked

ReplacerRemove(r, frame_id) ==
    LET ticked == [r EXCEPT !.current_timestamp = @ + 1]
    IN  IF frame_id > r.replacer_size THEN [r EXCEPT !.aborted = TRUE]
        ELSE IF frame_id \in DOMAIN r.non_evict_frames THEN [ticked EXCEPT !.aborted = TRUE]
        ELSE IF frame_id \in DOMAIN r.frame_map
        THEN [ticked EXCEPT !.frame_map = MapErase(@, frame_id), !.curr_size = @ - 1]
        ELSE ticked

ReplacerSize(r) == r.curr_size

\* every order in which a loop over the unordered_map m can visit its keys
RECURSIVE Orders(_)
Orders(S) ==
    IF S = {} THEN {<<>>}
    ELSE UNION {{<<x>> \o o : o \in Orders(S \ {x})} : x \in S}

ReplacerRetNew == [op |-> "none", ok |-> TRUE, frame_id |-> INVALID_PAGE_ID]

RepRunning == ~rep.aborted /\ rep.current_timestamp < MaxTime

RecordAccessCall ==
    /\ RepRunning
    /\ \E f \in 0 .. ReplacerFrames :
          /\ rep' = ReplacerRecordAccess(rep, f)
          /\ rep_ret' = [op |-> "RecordAccess", ok |-> TRUE, frame_id |-> f]
          /\ rep_dropped' = rep_dropped
    /\ UNCHANGED <<ehtVars, bpmVars, treeVars>>

SetEvictableCall ==
    /\ RepRunning
    /\ \E f \in 0 .. ReplacerFrames, b \in BOOLEAN :
          /\ rep' = ReplacerSetEvictable(rep, f, b)
          /\ rep_ret' = [op |-> "SetEvictable", ok |-> b, frame_id |-> f]
          /\ rep_dropped' = rep_dropped
    /\ UNCHANGED <<ehtVars, bpmVars, treeVars>>

EvictCall ==
    /\ RepRunning
    /\ \E order \in Orders(DOMAIN rep.frame_map) :
          LET res == ReplacerEvict(rep, order, INVALID_PAGE_ID)
          IN  /\ rep' = res[1]
              /\ rep_ret' = [op |-> "Evict", ok |-> res[2], frame_id |-> res[3]]
              /\ rep_dropped' = IF res[2] THEN rep_dropped \cup {res[3]} ELSE rep_dropped
    /\ UNCHANGED <<ehtVars, bpmVars, treeVars>>

RemoveCall ==
    /\ RepRunning
    /\ \E f \in 0 .. ReplacerFrames :
          /\ rep' = ReplacerRemove(rep, f)
          /\ rep_ret' = [op |-> "Remove", ok |-> TRUE, frame_id |-> f]
          /\ rep_dropped' = IF f \in DOMAIN rep.frame_map /\ f \notin DOMAIN rep'.frame_map
                            THEN rep_dropped \cup {f} ELSE rep_dropped
    /\ UNCHANGED <<ehtVars, bpmVars, treeVars>>

(***************************************************************************)
(* BUFFER POOL MANAGER  (src/src/buffer/buffer_pool_manager_instance.cpp)  *)
(*                                                                         *)
(* pages is the array pages_ (frame f is pages[f + 1]), a Page being       *)
(* [page_id, pin_count, is_dirty, data]; page_table is the extendible hash *)
(* table and replacer the LRU-K replacer above; disk is what the disk      *)
(* manager holds for the page ids written so far.                          *)
(* The bytes of a page are one number.                                     *)
(***************************************************************************)
PoolSize == 2
MaxPages == 3
MaxData == 1
MaxBpmTime == 10
ZeroData == 0
PageIds == 0 .. MaxPages - 1

BpmNew(pool_size, replacer_k) ==
    [pool_size |-> pool_size,
     pages |-> Built([f \in 1 .. pool_size |-> [page_id |-> INVALID_PAGE_ID, pin_count |-> 0,
                                                is_dirty |-> FALSE, data |-> ZeroData]]),
     page_table |-> EhtNew(PageTableBucketSize),
     replacer |-> ReplacerNew(pool_size, replacer_k),
     free_list |-> Built([i \in 1 .. pool_size |-> i - 1]),
     next_page_id |-> 0,
     disk |-> [p \in {} |-> ZeroData]]

\* disk_manager_->WritePage(page_id, data)
WritePage(b, page_id, data) == [b EXCEPT !.disk = MapPut(@, page_id, data)]

\* disk_manager_->ReadPage(page_id, data): a page never written reads as zero bytes
ReadPage(b, page_id) == IF page_id \in DOMAIN b.disk THEN b.disk[page_id] ELSE ZeroData

ResetPage(page) ==
    [page EXCEPT !.data = ZeroData, !.page_id = INVALID_PAGE_ID,
                 !.pin_count = 0, !.is_dirty = FALSE]

\* AcquireFrame that never evicts
AcquireFrame_NoEvict(b, order) ==
    IF b.free_list # <<>>
    THEN <<[b EXCEPT !.free_list = Tail(@)], TRUE, Head(b.free_list)>>
    ELSE <<[b EXCEPT !.replacer.current_timestamp = @ + 1], FALSE, INVALID_PAGE_ID>>

\* the frame NewPgImp and FetchPgImp take: from the free list, else a victim of
\* the replacer, written back if dirty and taken out of the page table.
\* <<the pool after it, whether a frame was found, the frame>>
AcquireFrame(b, order) ==
    IF b.free_list # <<>>
    THEN <<[b EXCEPT !.free_list = Tail(@)], TRUE, Head(b.free_list)>>
    ELSE Val([res \in {ReplacerEvict(b.replacer, order, INVALID_PAGE_ID)} |->
         IF ~res[2] THEN <<[b EXCEPT !.replacer = res[1]], FALSE, INVALID_PAGE_ID>>
         ELSE (LET page == b.pages[res[3] + 1] IN
              <<[(IF page.is_dirty THEN WritePage(b, page.page_id, page.data) ELSE b)
                    EXCEPT !.replacer = res[1],
                           !.page_table = EhtRemove(@, page.page_id)],
                TRUE, res[3]>>)])

\* NewPgImp taking a page id when no frame is to be had
NewPgImp_FailureAllocates(b, order) ==
    Val([got \in {AcquireFrame(b, order)} |->
        IF ~got[2] THEN <<[got[1] EXCEPT !.next_page_id = @ + 1], INVALID_PAGE_ID, INVALID_PAGE_ID>>
        ELSE (LET page_id == got[1].next_page_id IN
             Val([b1 \in {[got[1] EXCEPT
                              !.replacer = ReplacerSetEvictable(ReplacerRecordAccess(@, got[3]),
                                                                got[3], FALSE),
                              !.next_page_id = @ + 1,
                              !.page_table = EhtInsert(@, page_id, got[3]),
                              !.pages[got[3] + 1] =
                                  [ResetPage(@) EXCEPT !.page_id = page_id, !.pin_count = @ + 1]]} |->
                     <<WritePage(b1, page_id, b1.pages[got[3] + 1].data), page_id, got[3]>>]))])

\* <<the pool after the call, the page id (INVALID_PAGE_ID: a null result), the frame>>
NewPgImp(b, order) ==
    Val([got \in {AcquireFrame(b, order)} |->
        IF ~got[2] THEN <<got[1], INVALID_PAGE_ID, INVALID_PAGE_ID>>
        ELSE (LET page_id == got[1].next_page_id IN
             Val([b1 \in {[got[1] EXCEPT
                              !.replacer = ReplacerSetEvictable(ReplacerRecordAccess(@, got[3]),
                                                                got[3], FALSE),
                              !.next_page_id = @ + 1,
                              !.page_table = EhtInsert(@, page_id, got[3]),
                              !.pages[got[3] + 1] =
                                  [ResetPage(@) EXCEPT !.page_id = page_id, !.pin_count = @ + 1]]} |->
                     <<WritePage(b1, page_id, b1.pages[got[3] + 1].data), page_id, got[3]>>]))])

\* the end of FetchPgImp: the page in frame_id is pinned
PinFrame(b, frame_id) ==
    [b EXCEPT !.pages[frame_id + 1].pin_count = @ + 1,
              !.replacer = ReplacerSetEvictable(ReplacerRecordAccess(@, frame_id),
                                                frame_id, FALSE)]

\* <<the pool after the call, whether a page is returned, the frame, whether it was read from disk>>
FetchPgImp(b, page_id, order) ==
    Val([found \in {EhtFind(b.page_table, page_id, INVALID_PAGE_ID)} |->
        IF found[1] THEN <<PinFrame(b, found[2]), TRUE, found[2], FALSE>>
        ELSE Val([got \in {AcquireFrame(b, order)} |->
             IF ~got[2] THEN <<got[1], FALSE, INVALID_PAGE_ID, FALSE>>
             ELSE <<PinFrame([got[1] EXCEPT
                                 !.pages[got[3] + 1] =
                                     [ResetPage(@) EXCEPT !.page_id = page_id,
                                                          !.data = ReadPage(got[1], page_id)],
                                 !.page_table = EhtInsert(@, page_id, got[3])],
                             got[3]),
                      TRUE, got[3], TRUE>>])])

\* UnpinPgImp making the frame evictable while pins remain
UnpinPgImp_AlwaysEvictable(b, page_id, is_dirty) ==
    Val([found \in {EhtFind(b.page_table, page_id, INVALID_PAGE_ID)} |->
        IF ~found[1] \/ b.pages[found[2] + 1].pin_count = 0 THEN <<b, FALSE>>
        ELSE <<[b EXCEPT !.pages[found[2] + 1].is_dirty = @ \/ is_dirty,
                         !.pages[found[2] + 1].pin_count = @ - 1,
                         !.replacer = ReplacerSetEvictable(@, found[2], TRUE)], TRUE>>])

\* UnpinPgImp dropping the dirty flag without writing the page
UnpinPgImp_NoWrite(b, page_id, is_dirty) ==
    Val([found \in {EhtFind(b.page_table, page_id, INVALID_PAGE_ID)} |->
        IF ~found[1] \/ b.pages[found[2] + 1].pin_count = 0 THEN <<b, FALSE>>
        ELSE Val([b1 \in {[b EXCEPT !.pages[found[2] + 1].is_dirty = @ \/ is_dirty,
                                    !.pages[found[2] + 1].pin_count = @ - 1]} |->
             IF b1.pages[found[2] + 1].pin_count # 0 THEN <<b1, TRUE>>
             ELSE <<[b1 EXCEPT !.replacer = ReplacerSetEvictable(@, found[2], TRUE),
                               !.pages[found[2] + 1].is_dirty = FALSE], TRUE>>])])

\* UnpinPgImp writing the dirty page at the last unpin and leaving it dirty
UnpinPgImp_StaysDirty(b, page_id, is_dirty) ==
    Val([found \in {EhtFind(b.page_table, page_id, INVALID_PAGE_ID)} |->
        IF ~found[1] \/ b.pages[found[2] + 1].pin_count = 0 THEN <<b, FALSE>>
        ELSE Val([b1 \in {[b EXCEPT !.pages[found[2] + 1].is_dirty = @ \/ is_dirty,
                                    !.pages[found[2] + 1].pin_count = @ - 1]} |->
             IF b1.pages[found[2] + 1].pin_count # 0 THEN <<b1, TRUE>>
             ELSE Val([b2 \in {[b1 EXCEPT !.replacer = ReplacerSetEvictable(@, found[2], TRUE)]} |->
                  IF b2.pages[found[2] + 1].is_dirty
                  THEN <<WritePage(b2, page_id, b2.pages[found[2] + 1].data), TRUE>>
                  ELSE <<b2, TRUE>>])])])

\* <<the pool after the call, the return value>>
UnpinPgImp(b, page_id, is_dirty) ==
    Val([found \in {EhtFind(b.page_table, page_id, INVALID_PAGE_ID)} |->
        IF ~found[1] \/ b.pages[found[2] + 1].pin_count = 0 THEN <<b, FALSE>>
        ELSE Val([b1 \in {[b EXCEPT !.pages[found[2] + 1].is_dirty = @ \/ is_dirty,
                                    !.pages[found[2] + 1].pin_count = @ - 1]} |->
             IF b1.pages[found[2] + 1].pin_count # 0 THEN <<b1, TRUE>>
             ELSE Val([b2 \in {[b1 EXCEPT !.replacer = ReplacerSetEvictable(@, found[2], TRUE)]} |->
                  IF b2.pages[found[2] + 1].is_dirty
                  THEN <<[WritePage(b2, page_id, b2.pages[found[2] + 1].data)
                             EXCEPT !.pages[found[2] + 1].is_dirty = FALSE], TRUE>>
                  ELSE <<b2, TRUE>>])])])

FlushPgImp(b, page_id) ==
    Val([found \in {EhtFind(b.page_table, page_id, INVALID_PAGE_ID)} |->
        IF ~found[1] THEN <<b, FALSE>>
        ELSE <<[WritePage(b, page_id, b.pages[found[2] + 1].data)
                   EXCEPT !.pages[found[2] + 1].is_dirty = FALSE], TRUE>>])

\* the loop of FlushAllPgsImp from page_id on
RECURSIVE FlushAllFrom(_, _)
FlushAllFrom(b, page_id) ==
    IF page_id >= b.next_page_id THEN b
    ELSE FlushAllFrom(IF EhtFind(b.page_table, page_id, INVALID_PAGE_ID)[1]
                      THEN FlushPgImp(b, page_id)[1] ELSE b,
                      page_id + 1)

FlushAllPgsImp(b) == FlushAllFrom(b, 0)

\* DeletePgImp without the call of replacer_->Remove
DeletePgImp_KeepsInReplacer(b, page_id) ==
    Val([found \in {EhtFind(b.page_table, page_id, INVALID_PAGE_ID)} |->
        IF ~found[1] THEN <<b, TRUE>>
        ELSE IF b.pages[found[2] + 1].pin_count # 0 THEN <<b, FALSE>>
        ELSE <<[b EXCEPT !.page_table = EhtRemove(@, page_id),
                         !.free_list = Append(@, found[2]),
                         !.pages[found[2] + 1] = ResetPage(@)], TRUE>>])

DeletePgImp(b, page_id) ==
    Val([found \in {EhtFind(b.page_table, page_id, INVALID_PAGE_ID)} |->
        IF ~found[1] THEN <<b, TRUE>>
        ELSE IF b.pages[found[2] + 1].pin_count # 0 THEN <<b, FALSE>>
        ELSE <<[b EXCEPT !.replacer = ReplacerRemove(@, found[2]),
                         !.page_table = EhtRemove(@, page_id),
                         !.free_list = Append(@, found[2]),
                         !.pages[found[2] + 1] = ResetPage(@)], TRUE>>])

(***************************************************************************)
(* B+ TREE  (src/src/storage/index/b_plus_tree.cpp)                        *)
(*                                                                         *)
(* The tree works on a buffer pool of its own.  The bytes of a tree page   *)
(* are a record of the header fields and array, the entries written since  *)
(* the page memory was zeroed (offset -> <<key, value>>; an offset not     *)
(* written reads as zero bytes).  A Page pointer is the frame it points    *)
(* into.  A call runs on a context c, the tree object with                 *)
(*   bpm    the pool behind buffer_pool_manager_,                          *)
(*   ret    what the last call made on c returned,                         *)
(*   held   page id -> the pins this call took and has not returned,       *)
(*   bad_unpin  whether this call unpinned a page it did not hold,         *)
(*   fault  "none", or why the call has no defined result from there on:   *)
(*          a null Page pointer was dereferenced, an array was read before *)
(*          its first entry, a page was used as a page of another type, a  *)
(*          loop does not end.                                             *)
(***************************************************************************)
\* the configuration and the bounds of the index runs
MaxKey == 4
TreePoolSize == 4
MinLeafMaxSize == 2
LeafMaxSize == 3
InternalMaxSize == 4
MaxTreeOps == 4
TreeKeys == 1 .. MaxKey
MaxVisited == MaxKey + 1

HEADER_PAGE_ID == 0

Fault(c, kind) == [c EXCEPT !.fault = kind]

Return(c, v) == [c EXCEPT !.ret = v]

\* the run has stopped in c: no code after the call that returned c executes
Faulted(c) == c.fault # "none"

Held(c, page_id) == IF page_id \in DOMAIN c.held THEN c.held[page_id] ELSE 0

\* the order in which FindEvictFrame goes through frame_map_
RECURSIVE FrameOrder(_)
FrameOrder(S) ==
    IF S = {} THEN <<>>
    ELSE (LET f == CHOOSE x \in S : \A y \in S : x <= y IN <<f>> \o FrameOrder(S \ {f}))

\* buffer_pool_manager_->FetchPage(page_id), returning the Page pointer
FetchPage(c, page_id) ==
    IF page_id < 0 \/ page_id >= c.bpm.next_page_id THEN Fault(c, "invalid page id")
    ELSE Val([res \in {FetchPgImp(c.bpm, page_id, FrameOrder(DOMAIN c.bpm.replacer.frame_map))} |->
                 IF ~res[2] THEN [c EXCEPT !.bpm = res[1], !.fault = "null page"]
                 ELSE [c EXCEPT !.bpm = res[1], !.ret = res[3],
                                !.held = MapPut(@, page_id, Held(c, page_id) + 1)]])

\* buffer_pool_manager_->NewPage(&page_id), returning <<page_id, the Page pointer>>
NewPage(c) ==
    Val([res \in {NewPgImp(c.bpm, FrameOrder(DOMAIN c.bpm.replacer.frame_map))} |->
        IF res[2] = INVALID_PAGE_ID THEN [c EXCEPT !.bpm = res[1], !.fault = "null page"]
        ELSE [c EXCEPT !.bpm = res[1], !.ret = <<res[2], res[3]>>,
                       !.held = MapPut(@, res[2], Held(c, res[2]) + 1)]])

\* buffer_pool_manager_->UnpinPage(page_id, is_dirty)
UnpinPage(c, page_id, is_dirty) ==
    [c EXCEPT !.bpm = UnpinPgImp(@, page_id, is_dirty)[1],
              !.held = IF Held(c, page_id) > 0 THEN MapPut(@, page_id, Held(c, page_id) - 1)
                       ELSE @,
              !.bad_unpin = @ \/ Held(c, page_id) = 0]

\* page->GetData() of the page in frame page
Data(c, page) == c.bpm.pages[page + 1].data

SetData(c, page, d) == [c EXCEPT !.bpm.pages[page + 1].data = d]

SetParentPageId(c, page, parent_page_id) ==
    [c EXCEPT !.bpm.pages[page + 1].data.parent_page_id = parent_page_id]

SetSize(c, page, size) == [c EXCEPT !.bpm.pages[page + 1].data.size = size]

IncreaseSize(c, page, amount) == [c EXCEPT !.bpm.pages[page + 1].data.size = @ + amount]

EmptyArray == [i \in {} |-> <<0, 0>>]

ArrAt(array, i) == IF i \in DOMAIN array THEN array[i] ELSE <<0, 0>>

KeyAt(d, index) == ArrAt(d.array, index)[1]

ValueAt(d, index) == ArrAt(d.array, index)[2]

SetMappingAt(d, index, key, value) == [d EXCEPT !.array = MapPut(@, index, <<key, value>>)]

SetKeyAt(d, index, key) == [d EXCEPT !.array = MapPut(@, index, <<key, ArrAt(@, index)[2]>>)]

\* BPlusTreeInternalPage::Init
InternalInit(page_id, parent_id, max_size, array) ==
    [page_type |-> "INTERNAL_PAGE", size |-> 0, max_size |-> max_size,
     parent_page_id |-> parent_id, page_id |-> page_id,
     next_page_id |-> INVALID_PAGE_ID, array |-> array]

\* BPlusTreeLeafPage::Init
LeafInit(page_id, parent_id, max_size, array) ==
    [page_type |-> "LEAF_PAGE", size |-> 0, max_size |-> max_size,
     parent_page_id |-> parent_id, page_id |-> page_id,
     next_page_id |-> INVALID_PAGE_ID, array |-> array]

IsLeafPage(d) == d.page_type = "LEAF_PAGE"

\* a root carries no parent; the tree creates its roots with their own id as parent id
IsRootPage(d) == d.parent_page_id = INVALID_PAGE_ID \/ d.parent_page_id = d.page_id

IsFull(d) == d.size >= d.max_size

Ceiling(sz) == IF sz % 2 = 0 THEN sz \div 2 ELSE sz \div 2 + 1

IsEmpty(c) == c.root_page_id = INVALID_PAGE_ID

\* whether page_id is the id of a page the tree has initialised
IsTreePageId(c, page_id) == page_id > HEADER_PAGE_ID /\ page_id < c.bpm.next_page_id

\* HeaderPage::InsertRecord / UpdateRecord of the one index
UpdateRootPageId(c, insert_record) ==
    Val([c1 \in {FetchPage(c, HEADER_PAGE_ID)} |-> IF Faulted(c1) THEN c1 ELSE
        UnpinPage(SetData(c1, c1.ret, [page_type |-> "HEADER_PAGE",
                                       root_page_id |-> c.root_page_id]),
                  HEADER_PAGE_ID, TRUE)])

\* the for loop of GetLeafPage: the first i in 1 .. sz with i = sz or KeyAt(i) > key
RECURSIVE ChildIndex(_, _, _)
ChildIndex(d, i, key) ==
    IF i = d.size \/ KeyAt(d, i) > key THEN i ELSE ChildIndex(d, i + 1, key)

\* the while loop of GetLeafPage, page_id being pinned at page
RECURSIVE GetLeafLoop(_, _, _, _)
GetLeafLoop(c, page_id, page, key) ==
    (LET d == Data(c, page) IN
        IF page_id = HEADER_PAGE_ID THEN Fault(c, "not a tree page")
        ELSE IF IsLeafPage(d) THEN Return(c, d.page_id)
        ELSE IF d.size < 1 THEN Fault(c, "endless loop")
        ELSE (LET child == ValueAt(d, ChildIndex(d, 1, key) - 1) IN
             Val([c1 \in {FetchPage(UnpinPage(c, page_id, FALSE), child)} |-> IF Faulted(c1) THEN c1 ELSE
                  GetLeafLoop(c1, child, c1.ret, key)])))

\* returns the page id of the leaf, which stays pinned
GetLeafPage(c, key) ==
    Val([c1 \in {FetchPage(c, c.root_page_id)} |-> IF Faulted(c1) THEN c1 ELSE
         GetLeafLoop(c1, c.root_page_id, c1.ret, key)])

\* returns <<the return value, *result>>, *result as [values, count]
GetValue(c, key) ==
    IF IsEmpty(c) THEN Return(c, <<FALSE, [values |-> {}, count |-> 0]>>)
    ELSE Val([c1 \in {GetLeafPage(c, key)} |-> IF Faulted(c1) THEN c1 ELSE
         Val([c2 \in {FetchPage(c1, c1.ret)} |-> IF Faulted(c2) THEN c2 ELSE
         (LET leaf_page == Data(c2, c2.ret) IN
         (LET hits == {i \in 0 .. leaf_page.size - 1 : KeyAt(leaf_page, i) = key} IN
             Return(UnpinPage(c2, leaf_page.page_id, FALSE),
                    <<hits # {}, [values |-> {ValueAt(leaf_page, i) : i \in hits},
                                  count |-> Cardinality(hits)]>>)))])])

\* arr[i] = entry, and arr[j] = copy[j - 1] for j = i + 1 .. sz
ShiftIn(array, i, sz, entry) ==
    Built([x \in DOMAIN array \cup (i .. sz) |->
              IF x = i THEN entry
              ELSE IF x > i /\ x <= sz THEN ArrAt(array, x - 1)
              ELSE array[x]])

\* the first offset from `from` on, below sz, whose key is greater than key; else sz
RECURSIVE UpperBound(_, _, _, _)
UpperBound(d, from, sz, key) ==
    IF from < sz /\ KeyAt(d, from) <= key THEN UpperBound(d, from + 1, sz, key) ELSE from

InsertInLeaf(c, leaf_page, key, value) ==
    (LET d == Data(c, leaf_page) IN
        IF d.size > c.leaf_max_size THEN Fault(c, "copy overrun")
        ELSE SetData(c, leaf_page,
                     [d EXCEPT !.array = ShiftIn(@, UpperBound(d, 0, d.size, key), d.size,
                                                 <<key, value>>),
                               !.size = @ + 1]))

InsertInNonLeaf(c, internal_page, key, value) ==
    (LET d == Data(c, internal_page) IN
        IF d.size > c.internal_max_size THEN Fault(c, "copy overrun")
        ELSE SetData(c, internal_page,
                     [d EXCEPT !.array = ShiftIn(@, UpperBound(d, 1, d.size, key), d.size,
                                                 <<key, value>>)]))

\* the loop of InsertInParent that moves the entries middle + i, i = from .. last,
\* of parent_page to new_internal_page and fetches each moved child
RECURSIVE MoveUpperHalf(_, _, _, _, _, _)
MoveUpperHalf(c, parent_page, new_internal_page, middle, from, last) ==
    IF from > last THEN c
    ELSE (LET entry == ArrAt(Data(c, parent_page).array, middle + from) IN
         Val([c1 \in {FetchPage(SetData(c, new_internal_page,
                                        SetMappingAt(Data(c, new_internal_page), from,
                                                     entry[1], entry[2])),
                                entry[2])} |-> IF Faulted(c1) THEN c1 ELSE
             IF entry[2] = HEADER_PAGE_ID THEN Fault(c1, "not a tree page")
             ELSE MoveUpperHalf(UnpinPage(SetParentPageId(c1, c1.ret,
                                              Data(c1, new_internal_page).page_id),
                                          entry[2], TRUE),
                                parent_page, new_internal_page, middle, from + 1, last)]))

RECURSIVE InsertInParent(_, _, _, _)
InsertInParent(c, left_page, right_page, key) ==
    IF IsRootPage(Data(c, left_page))
    THEN Val([c1 \in {NewPage(c)} |-> IF Faulted(c1) THEN c1 ELSE
         Val([c2 \in {UpdateRootPageId(
                          [SetData(c1, c1.ret[2],
                                   [SetMappingAt(SetMappingAt(
                                        InternalInit(c1.ret[1], c1.ret[1], c.internal_max_size,
                                                     EmptyArray),
                                        0, key, Data(c1, left_page).page_id),
                                        1, key, Data(c1, right_page).page_id) EXCEPT !.size = 2])
                              EXCEPT !.root_page_id = c1.ret[1]], 0)} |-> IF Faulted(c2) THEN c2 ELSE
              UnpinPage(SetParentPageId(SetParentPageId(c2, left_page, c1.ret[1]),
                                        right_page, c1.ret[1]),
                        c1.ret[1], TRUE)])])
    ELSE (LET parent_page_id == Data(c, left_page).parent_page_id IN
         Val([c1 \in {FetchPage(c, parent_page_id)} |-> IF Faulted(c1) THEN c1 ELSE
         IF parent_page_id = HEADER_PAGE_ID THEN Fault(c1, "not a tree page")
         ELSE
         Val([c2 \in {InsertInNonLeaf(c1, c1.ret, key, Data(c1, right_page).page_id)} |-> IF Faulted(c2) THEN c2 ELSE
         IF ~IsFull(Data(c2, c1.ret))
         THEN UnpinPage(SetParentPageId(IncreaseSize(c2, c1.ret, 1), right_page,
                                        parent_page_id),
                        parent_page_id, TRUE)
         ELSE
         (LET middle == Ceiling(c.internal_max_size) IN
         Val([c3 \in {NewPage(c2)} |-> IF Faulted(c3) THEN c3 ELSE
         Val([c4 \in {MoveUpperHalf(
                          SetSize(SetData(c3, c3.ret[2],
                                          [InternalInit(c3.ret[1], Data(c3, c1.ret).parent_page_id,
                                                        c.internal_max_size, EmptyArray)
                                              EXCEPT !.size = c.internal_max_size - middle + 1]),
                                  c1.ret, middle),
                          c1.ret, c3.ret[2], middle, 0, c.internal_max_size - middle)} |-> IF Faulted(c4) THEN c4 ELSE
         Val([c5 \in {InsertInParent(c4, c1.ret, c3.ret[2], KeyAt(Data(c4, c1.ret), middle))} |-> 
             IF Faulted(c5) THEN c5 ELSE
              UnpinPage(UnpinPage(c5, c3.ret[1], TRUE), parent_page_id, TRUE)])])]))])]))

\* SplitLeaf without the link from the old leaf to the new one
SplitLeaf_Unlinked(c, leaf_page) ==
    Val([c1 \in {NewPage(c)} |-> IF Faulted(c1) THEN c1 ELSE
    (LET leaf == Data(c1, leaf_page) IN
    (LET middle == Ceiling(c.leaf_max_size) IN
    Val([new_leaf \in {[LeafInit(c1.ret[1], leaf.parent_page_id, c.leaf_max_size,
                                 Built([i \in 0 .. c.leaf_max_size - middle - 1 |->
                                           ArrAt(leaf.array, middle + i)]))
                           EXCEPT !.next_page_id = leaf.next_page_id,
                                  !.size = c.leaf_max_size - middle]} |->
    Val([c2 \in {InsertInParent(
                     SetData(SetData(c1, c1.ret[2], new_leaf), leaf_page,
                             [leaf EXCEPT !.size = middle]),
                     leaf_page, c1.ret[2], KeyAt(new_leaf, 0))} |-> IF Faulted(c2) THEN c2 ELSE
         UnpinPage(c2, c1.ret[1], TRUE)])])))])

\* the split of the leaf at leaf_page in Insert, up to the unpin of the new page
SplitLeaf(c, leaf_page) ==
    Val([c1 \in {NewPage(c)} |-> IF Faulted(c1) THEN c1 ELSE
    (LET leaf == Data(c1, leaf_page) IN
    (LET middle == Ceiling(c.leaf_max_size) IN
    Val([new_leaf \in {[LeafInit(c1.ret[1], leaf.parent_page_id, c.leaf_max_size,
                                 Built([i \in 0 .. c.leaf_max_size - middle - 1 |->
                                           ArrAt(leaf.array, middle + i)]))
                           EXCEPT !.next_page_id = leaf.next_page_id,
                                  !.size = c.leaf_max_size - middle]} |->
    Val([c2 \in {InsertInParent(
                     SetData(SetData(c1, c1.ret[2], new_leaf), leaf_page,
                             [leaf EXCEPT !.next_page_id = c1.ret[1], !.size = middle]),
                     leaf_page, c1.ret[2], KeyAt(new_leaf, 0))} |-> IF Faulted(c2) THEN c2 ELSE
         UnpinPage(c2, c1.ret[1], TRUE)])])))])

\* returns the return value
Insert(c, key, value) ==
    IF IsEmpty(c)
    THEN Val([c1 \in {NewPage(c)} |-> IF Faulted(c1) THEN c1 ELSE
         Val([c2 \in {UpdateRootPageId([c1 EXCEPT !.root_page_id = c1.ret[1]], 1)} |-> IF Faulted(c2) THEN c2 ELSE
              Return(UnpinPage(
                         SetData(c2, c1.ret[2],
                                 [SetMappingAt(LeafInit(c1.ret[1], c1.ret[1], c.leaf_max_size,
                                                        EmptyArray), 0, key, value)
                                     EXCEPT !.size = 1]),
                         c1.ret[1], TRUE), TRUE)])])
    ELSE Val([c1 \in {GetLeafPage(c, key)} |-> IF Faulted(c1) THEN c1 ELSE
         Val([c2 \in {FetchPage(c1, c1.ret)} |-> IF Faulted(c2) THEN c2 ELSE
         (LET leaf == Data(c2, c2.ret) IN
         IF \E i \in 0 .. leaf.size - 1 : KeyAt(leaf, i) = key
         THEN Return(UnpinPage(c2, leaf.page_id, FALSE), FALSE)
         ELSE
         Val([c3 \in {InsertInLeaf(c2, c2.ret, key, value)} |-> IF Faulted(c3) THEN c3 ELSE
         Val([c4 \in {IF Data(c3, c2.ret).size >= c.leaf_max_size THEN SplitLeaf(c3, c2.ret) ELSE c3} |-> 
             IF Faulted(c4) THEN c4 ELSE
              Return(UnpinPage(c4, c1.ret, TRUE), TRUE)])]))])])

\* arr[x] = arr[x + 1] for x = i .. sz - 1
ShiftOut(array, i, sz) ==
    Built([x \in DOMAIN array \cup (i .. sz - 1) |->
              IF x >= i /\ x < sz THEN ArrAt(array, x + 1) ELSE array[x]])

\* the first offset from `from` on, below sz, whose key is key; else max(from, sz)
RECURSIVE IndexOfKey(_, _, _, _)
IndexOfKey(d, from, sz, key) ==
    IF from < sz /\ KeyAt(d, from) # key THEN IndexOfKey(d, from + 1, sz, key) ELSE from

\* [is_next, index, middle_key, sibling], and whether arr was read before arr[0]
GetPrevOrNextSibiling(d, key) ==
    Val([i \in {UpperBound(d, 1, d.size, key)} |->
        IF i = d.size
        THEN [is_next |-> FALSE, index |-> d.size - 2, middle_key |-> KeyAt(d, d.size - 1),
              sibling |-> ValueAt(d, d.size - 2), out_of_bounds |-> d.size < 2]
        ELSE [is_next |-> TRUE, index |-> i, middle_key |-> KeyAt(d, i),
              sibling |-> ValueAt(d, i), out_of_bounds |-> FALSE]])

\* the two UnpinPage calls that end RemoveEntryInLeaf and CoalesceNonLeaf
UnpinParentAndSibling(c, page, sibling) ==
    UnpinPage(UnpinPage(c, Data(c, page).parent_page_id, TRUE), sibling, TRUE)

\* arr1[sz + i] = arr2[i] for i = from .. n - 1, arr1 of sibling_page, arr2 of leaf_page
RECURSIVE AppendEntries(_, _, _, _, _, _)
AppendEntries(c, sibling_page, leaf_page, sz, from, n) ==
    IF from >= n THEN c
    ELSE AppendEntries(
             SetData(c, sibling_page,
                     [Data(c, sibling_page) EXCEPT
                         !.array = MapPut(@, sz + from, ArrAt(Data(c, leaf_page).array, from))]),
             sibling_page, leaf_page, sz, from + 1, n)

\* the merge loop of CoalesceNonLeaf: arr1[sz + i] = arr2[i], and the child
\* arr2[i].second gets sibling_page as its parent, for i = from .. n - 1
RECURSIVE AdoptChildren(_, _, _, _, _, _)
AdoptChildren(c, sibling_page, internal_page, sz, from, n) ==
    IF from >= n THEN c
    ELSE Val([c1 \in {SetData(c, sibling_page,
                              [Data(c, sibling_page) EXCEPT
                                  !.array = MapPut(@, sz + from,
                                                   ArrAt(Data(c, internal_page).array, from))])} |->
         (LET child == ValueAt(Data(c1, internal_page), from) IN
         Val([c2 \in {FetchPage(c1, child)} |-> IF Faulted(c2) THEN c2 ELSE
             IF child = HEADER_PAGE_ID THEN Fault(c2, "not a tree page")
             ELSE AdoptChildren(
                      UnpinPage(SetParentPageId(c2, c2.ret, Data(c2, sibling_page).page_id),
                                child, TRUE),
                      sibling_page, internal_page, sz, from + 1, n)]))])

RECURSIVE RemoveEntryInNonLeaf(_, _, _)
RECURSIVE CoalesceNonLeaf(_, _, _)
RECURSIVE RemoveEntryInLeaf(_, _, _)

RemoveEntryInNonLeaf(c, key, internal_page) ==
    (LET d == Data(c, internal_page) IN
    Val([c1 \in {SetData(c, internal_page,
                         [d EXCEPT !.array = ShiftOut(@, IndexOfKey(d, 1, d.size, key), d.size),
                                   !.size = @ - 1])} |->
        IF IsRootPage(d) /\ d.size - 1 = 1
        THEN UpdateRootPageId(
                 [c1 EXCEPT !.root_page_id = ValueAt(Data(c1, internal_page), 0)], 0)
        ELSE IF ~IsRootPage(d) /\ d.size - 1 < Ceiling(c.internal_max_size)
        THEN CoalesceNonLeaf(c1, key, internal_page)
        ELSE c1]))

\* the branch of CoalesceNonLeaf that merges; parent_page and sibling_page0 are
\* the pages fetched, sib what GetPrevOrNextSibiling returned
MergeNonLeaf(c, internal_page0, parent_page, sibling_page0, sib) ==
    (LET sibling_page == IF sib.is_next THEN internal_page0 ELSE sibling_page0 IN
    (LET internal_page == IF sib.is_next THEN sibling_page0 ELSE internal_page0 IN
    (LET sz == Data(c, sibling_page).size IN
    Val([c1 \in {AdoptChildren(c, sibling_page, internal_page, sz, 0,
                               Data(c, internal_page).size)} |-> IF Faulted(c1) THEN c1 ELSE
    Val([c2 \in {RemoveEntryInNonLeaf(
                     IncreaseSize(SetData(c1, sibling_page,
                                          SetKeyAt(Data(c1, sibling_page), sz, sib.middle_key)),
                                  sibling_page, Data(c1, internal_page).size),
                     sib.middle_key, parent_page)} |-> IF Faulted(c2) THEN c2 ELSE
         UnpinParentAndSibling(c2, internal_page, sib.sibling)])]))))

\* the branch of CoalesceNonLeaf that borrows an entry of the sibling
BorrowNonLeaf(c, internal_page, parent_page, sibling_page, sib) ==
    (LET s == Data(c, sibling_page) IN
        IF sib.is_next
        THEN Val([c1 \in {SetData(c, sibling_page,
                                  [s EXCEPT !.array = ShiftOut(@, 0, s.size - 1), !.size = @ - 1])} |->
             Val([c2 \in {IncreaseSize(
                              SetData(c1, internal_page,
                                      SetMappingAt(Data(c1, internal_page), Data(c1, internal_page).size,
                                                   sib.middle_key, ValueAt(s, 0))),
                              internal_page, 1)} |->
                 UnpinParentAndSibling(
                     SetData(c2, parent_page,
                             SetKeyAt(Data(c2, parent_page), sib.index, KeyAt(s, 1))),
                     internal_page, sib.sibling)])])
        ELSE Val([c1 \in {RemoveEntryInNonLeaf(c, KeyAt(s, s.size), sibling_page)} |-> IF Faulted(c1) THEN c1 ELSE
             Val([c2 \in {InsertInNonLeaf(c1, internal_page, KeyAt(s, s.size), ValueAt(s, s.size))} |-> 
                 IF Faulted(c2) THEN c2 ELSE
                 UnpinParentAndSibling(
                     SetData(c2, parent_page,
                             SetKeyAt(Data(c2, parent_page), sib.index + 1, KeyAt(s, s.size))),
                     internal_page, sib.sibling)])]))

CoalesceNonLeaf(c, key, internal_page) ==
    (LET parent_page_id == Data(c, internal_page).parent_page_id IN
    Val([c1 \in {FetchPage(c, parent_page_id)} |-> IF Faulted(c1) THEN c1 ELSE
    IF parent_page_id = HEADER_PAGE_ID \/ IsLeafPage(Data(c1, c1.ret))
    THEN Fault(c1, "not a tree page")
    ELSE
    Val([sib \in {GetPrevOrNextSibiling(Data(c1, c1.ret), key)} |->
    IF sib.out_of_bounds THEN Fault(c1, "read before the array")
    ELSE
    Val([c2 \in {FetchPage(c1, sib.sibling)} |-> IF Faulted(c2) THEN c2 ELSE
    IF sib.sibling = HEADER_PAGE_ID \/ IsLeafPage(Data(c2, c2.ret))
    THEN Fault(c2, "not a tree page")
    ELSE IF Data(c2, internal_page).size + Data(c2, c2.ret).size <= c.internal_max_size
    THEN MergeNonLeaf(c2, internal_page, c1.ret, c2.ret, sib)
    ELSE BorrowNonLeaf(c2, internal_page, c1.ret, c2.ret, sib)])])]))

\* the branch of RemoveEntryInLeaf that merges, with its own two UnpinPage
\* calls and the two that end RemoveEntryInLeaf
MergeLeaf(c, leaf_page0, parent_page, sibling_page0, sib) ==
    (LET sibling_page == IF sib.is_next THEN leaf_page0 ELSE sibling_page0 IN
    (LET leaf_page == IF sib.is_next THEN sibling_page0 ELSE leaf_page0 IN
    Val([c1 \in {AppendEntries(c, sibling_page, leaf_page, Data(c, sibling_page).size, 0,
                               Data(c, leaf_page).size)} |->
    Val([c2 \in {RemoveEntryInNonLeaf(
                     SetData(c1, sibling_page,
                             [Data(c1, sibling_page) EXCEPT
                                 !.size = @ + Data(c1, leaf_page).size,
                                 !.next_page_id = Data(c1, leaf_page).next_page_id]),
                     sib.middle_key, parent_page)} |-> IF Faulted(c2) THEN c2 ELSE
         UnpinParentAndSibling(UnpinParentAndSibling(c2, leaf_page, sib.sibling),
                               leaf_page, sib.sibling)])])))

\* the branch of RemoveEntryInLeaf that borrows an entry of the sibling
BorrowLeaf(c, leaf_page, parent_page, sibling_page, sib) ==
    (LET s == Data(c, sibling_page) IN
        IF sib.is_next
        THEN Val([c1 \in {SetData(c, sibling_page,
                                  [s EXCEPT !.array = ShiftOut(@, 0, s.size - 1), !.size = @ - 1])} |->
             Val([c2 \in {IncreaseSize(
                              SetData(c1, leaf_page,
                                      SetMappingAt(Data(c1, leaf_page), Data(c1, leaf_page).size,
                                                   KeyAt(s, 0), ValueAt(s, 0))),
                              leaf_page, 1)} |->
                 UnpinParentAndSibling(
                     SetData(c2, parent_page,
                             SetKeyAt(Data(c2, parent_page), sib.index, KeyAt(s, 0))),
                     leaf_page, sib.sibling)])])
        ELSE Val([c1 \in {RemoveEntryInLeaf(c, KeyAt(s, s.size), sibling_page)} |-> IF Faulted(c1) THEN c1 ELSE
             Val([c2 \in {InsertInLeaf(c1, leaf_page, KeyAt(s, s.size), ValueAt(s, s.size))} |-> 
                 IF Faulted(c2) THEN c2 ELSE
                 UnpinParentAndSibling(
                     SetData(c2, parent_page,
                             SetKeyAt(Data(c2, parent_page), sib.index + 1, KeyAt(s, s.size))),
                     leaf_page, sib.sibling)])]))

RemoveEntryInLeaf(c, key, leaf_page) ==
    (LET d == Data(c, leaf_page) IN
    Val([c1 \in {SetData(c, leaf_page,
                         [d EXCEPT !.array = ShiftOut(@, IndexOfKey(d, 0, d.size, key), d.size),
                                   !.size = @ - 1])} |->
        IF IsRootPage(d) /\ d.size - 1 = 1
        THEN UpdateRootPageId([c1 EXCEPT !.root_page_id = d.page_id], 0)
        ELSE IF IsRootPage(d) \/ d.size - 1 >= Ceiling(c.leaf_max_size) THEN c1
        ELSE
        Val([c2 \in {FetchPage(c1, d.parent_page_id)} |-> IF Faulted(c2) THEN c2 ELSE
        IF d.parent_page_id = HEADER_PAGE_ID \/ IsLeafPage(Data(c2, c2.ret))
        THEN Fault(c2, "not a tree page")
        ELSE
        Val([sib \in {GetPrevOrNextSibiling(Data(c2, c2.ret), key)} |->
        IF sib.out_of_bounds THEN Fault(c2, "read before the array")
        ELSE
        Val([c3 \in {FetchPage(c2, sib.sibling)} |-> IF Faulted(c3) THEN c3 ELSE
        IF sib.sibling = HEADER_PAGE_ID \/ ~IsLeafPage(Data(c3, c3.ret))
        THEN Fault(c3, "not a tree page")
        ELSE IF d.size - 1 + Data(c3, c3.ret).size <= c.leaf_max_size
        THEN MergeLeaf(c3, leaf_page, c2.ret, c3.ret, sib)
        ELSE BorrowLeaf(c3, leaf_page, c2.ret, c3.ret, sib)])])])]))

Remove(c, key) ==
    IF IsEmpty(c) THEN c
    ELSE Val([c1 \in {GetLeafPage(c, key)} |-> IF Faulted(c1) THEN c1 ELSE
         Val([c2 \in {FetchPage(c1, c1.ret)} |-> IF Faulted(c2) THEN c2 ELSE
         Val([c3 \in {RemoveEntryInLeaf(c2, key, c2.ret)} |-> IF Faulted(c3) THEN c3 ELSE
              UnpinPage(c3, c1.ret, TRUE)])])])

\* returns the offset of key in the leaf page_id, -1 if it is not there; the
\* page stays pinned
GetIndex(c, page_id, key) ==
    Val([c1 \in {FetchPage(c, page_id)} |-> IF Faulted(c1) THEN c1 ELSE
    (LET leaf == Data(c1, c1.ret) IN
    Val([i \in {IndexOfKey(leaf, 0, leaf.size, key)} |->
        Return(c1, IF i < leaf.size THEN i ELSE -1)]))])

\* the while loop of FindMinLeaf, page_id being pinned at page
RECURSIVE FindMinLoop(_, _, _)
FindMinLoop(c, page_id, page) ==
    (LET d == Data(c, page) IN
        IF page_id = HEADER_PAGE_ID THEN Fault(c, "not a tree page")
        ELSE IF IsLeafPage(d) THEN Return(c, d.page_id)
        ELSE Val([c1 \in {FetchPage(UnpinPage(c, page_id, FALSE), ValueAt(d, 0))} |-> IF Faulted(c1) THEN c1 ELSE
                  FindMinLoop(c1, ValueAt(d, 0), c1.ret)]))

\* returns the page id of the leaf, which stays pinned
FindMinLeaf(c) ==
    Val([c1 \in {FetchPage(c, c.root_page_id)} |-> IF Faulted(c1) THEN c1 ELSE
         FindMinLoop(c1, c.root_page_id, c1.ret)])

\* Begin(): returns the iterator
Begin(c) ==
    Val([c1 \in {FindMinLeaf(c)} |-> IF Faulted(c1) THEN c1 ELSE
    Return(c1, [page_id |-> c1.ret, offset |-> 0])])

\* Begin(key)
BeginAt(c, key) ==
    Val([c1 \in {GetLeafPage(c, key)} |-> IF Faulted(c1) THEN c1 ELSE
    Val([c2 \in {GetIndex(c1, c1.ret, key)} |-> IF Faulted(c2) THEN c2 ELSE
         Return(c2, [page_id |-> c1.ret, offset |-> c2.ret])])])

End == [page_id |-> INVALID_PAGE_ID, offset |-> 0]

(***************************************************************************)
(* INDEX ITERATOR  (src/src/storage/index/index_iterator.cpp)              *)
(***************************************************************************)
\* operator*: returns m_
IteratorDeref(c, it) ==
    Val([c1 \in {FetchPage(c, it.page_id)} |-> IF Faulted(c1) THEN c1 ELSE
        IF it.page_id = HEADER_PAGE_ID THEN Fault(c1, "not a tree page")
        ELSE IF it.offset < 0 THEN Fault(c1, "read before the array")
        ELSE Return(UnpinPage(c1, it.page_id, FALSE),
                    <<KeyAt(Data(c1, c1.ret), it.offset), ValueAt(Data(c1, c1.ret), it.offset)>>)])

\* operator++: returns the iterator
IteratorNext(c, it) ==
    Val([c1 \in {FetchPage(c, it.page_id)} |-> IF Faulted(c1) THEN c1 ELSE
        IF it.page_id = HEADER_PAGE_ID THEN Fault(c1, "not a tree page")
        ELSE Return(UnpinPage(c1, it.page_id, FALSE),
                    IF it.offset + 1 >= Data(c1, c1.ret).size
                    THEN [page_id |-> Data(c1, c1.ret).next_page_id, offset |-> 0]
                    ELSE [it EXCEPT !.offset = @ + 1])])

(***************************************************************************)
(* A buffer pool that has been in use                                      *)
(*                                                                         *)
(* AgedPool is the pool of AgedPoolSize frames after the calls             *)
(*   NewPage() AgedPages times, every page but 0, 8, 16, 24 and 32         *)
(*     unpinned as soon as it is made,                                     *)
(*   UnpinPage of 0, 8, 16, 24, 32,                                        *)
(*   FetchPage and UnpinPage of 1, 5, 9, 11,                               *)
(* the replacer going through its frames in ascending order.  Its page     *)
(* table has split buckets: the directory has 16 slots and the four odd    *)
(* resident pages share one bucket of local depth 1.                       *)
(***************************************************************************)
AgedPoolSize == 5
AgedPages == 33
AgedPinned == {0, 8, 16, 24, 32}
AgedFetched == <<1, 5, 9, 11>>
AgedPageIds == {11, 13}
MaxAgedTime == 8

RECURSIVE AllocatePages(_, _, _)
AllocatePages(b, n, pinned) ==
    IF b.next_page_id >= n THEN b
    ELSE Val([made \in {NewPgImp(b, FrameOrder(DOMAIN b.replacer.frame_map))} |->
             IF made[2] = INVALID_PAGE_ID THEN b
             ELSE AllocatePages(IF made[2] \in pinned THEN made[1]
                           ELSE UnpinPgImp(made[1], made[2], FALSE)[1],
                           n, pinned)])

RECURSIVE UnpinPages(_, _)
UnpinPages(b, S) ==
    IF S = {} THEN b
    ELSE (LET p == CHOOSE x \in S : \A y \in S : x <= y IN
          UnpinPages(UnpinPgImp(b, p, FALSE)[1], S \ {p}))

RECURSIVE FetchAndUnpinPages(_, _)
FetchAndUnpinPages(b, pages) ==
    IF pages = <<>> THEN b
    ELSE FetchAndUnpinPages(
             UnpinPgImp(FetchPgImp(b, Head(pages), FrameOrder(DOMAIN b.replacer.frame_map))[1],
                        Head(pages), FALSE)[1],
             Tail(pages))

\* the pool after the first 8, 16, 24 and all the NewPage calls
AgedPool8 == AllocatePages(BpmNew(AgedPoolSize, ReplacerK), 8, AgedPinned)
AgedPool16 == AllocatePages(AgedPool8, 16, AgedPinned)
AgedPool24 == AllocatePages(AgedPool16, 24, AgedPinned)
AgedPoolFull == AllocatePages(AgedPool24, AgedPages, AgedPinned)
AgedPoolUnpinned == UnpinPages(AgedPoolFull, AgedPinned)

AgedPool == FetchAndUnpinPages(AgedPoolUnpinned, AgedFetched)

BpmRetNew == [op |-> "none", ok |-> TRUE, page_id |-> INVALID_PAGE_ID,
              frame_id |-> INVALID_PAGE_ID, from_disk |-> FALSE, is_dirty |-> FALSE]

\* no FlushAllPages call is in progress
BpmFlushNew == [pc |-> "idle", page_id |-> 0]

BpmPromisedNew == [p \in 0 .. AgedPages |-> {}]

\* the pool is the one that has been in use
IsAged(b) == b.pool_size = AgedPoolSize

BpmRunning ==
    /\ ~bpm.replacer.aborted
    /\ bpm_flush.pc # "aborted"
    /\ bpm.replacer.current_timestamp <
           (IF IsAged(bpm) THEN AgedPool.replacer.current_timestamp + MaxAgedTime
            ELSE MaxBpmTime)

\* the orders in which the replacer's loops visit the frames: every order, or, on
\* the pool that has been in use, the ascending and the descending one
Descending(order) == [i \in 1 .. Len(order) |-> order[Len(order) + 1 - i]]

CallOrders(b) ==
    IF IsAged(b)
    THEN {FrameOrder(DOMAIN b.replacer.frame_map),
          Descending(FrameOrder(DOMAIN b.replacer.frame_map))}
    ELSE Orders(DOMAIN b.replacer.frame_map)

\* a page the database file holds from an earlier run: no NewPage call of the
\* pool returns its id, the pool meets it in FetchPage only
UnallocatedPageId == MaxPages

\* the pool of one frame opened on a file that holds that page, zeroed
ReopenedPool == [BpmNew(1, ReplacerK) EXCEPT !.disk = (UnallocatedPageId :> ZeroData)]

\* the page ids the callers pass: every page id allocated so far and the page
\* the file held before, or, on the pool that has been in use, the ids in
\* AgedPageIds and those allocated since
CallPageIds(b) ==
    IF IsAged(b) THEN AgedPageIds \cup (AgedPages .. b.next_page_id - 1)
    ELSE (0 .. b.next_page_id - 1) \cup (DOMAIN b.disk \cap {UnallocatedPageId})

\* the frame holding page_id according to the page table
FrameOf(b, page_id) == EhtFind(b.page_table, page_id, INVALID_PAGE_ID)

NewPageCall ==
    /\ BpmRunning
    /\ bpm.next_page_id < (IF IsAged(bpm) THEN AgedPages + 1 ELSE MaxPages)
    /\ \E order \in CallOrders(bpm) :
          LET res == NewPgImp(bpm, order)
          IN  /\ bpm' = res[1]
              /\ bpm_ret' = [op |-> "NewPage", ok |-> res[2] # INVALID_PAGE_ID,
                             page_id |-> res[2], frame_id |-> res[3], from_disk |-> FALSE, is_dirty |-> FALSE]
              /\ bpm_promised' = IF res[2] # INVALID_PAGE_ID
                                 THEN [bpm_promised EXCEPT ![res[2]] = {}]
                                 ELSE bpm_promised
    /\ UNCHANGED <<bpm_flush, ehtVars, repVars, treeVars>>

FetchPageCall ==
    /\ BpmRunning
    /\ \E p \in CallPageIds(bpm), order \in CallOrders(bpm) :
          LET res == FetchPgImp(bpm, p, order)
          IN  /\ bpm' = res[1]
              /\ bpm_ret' = [op |-> "FetchPage", ok |-> res[2], page_id |-> p,
                             frame_id |-> res[3], from_disk |-> res[4], is_dirty |-> FALSE]
    /\ UNCHANGED <<bpm_flush, ehtVars, repVars, bpm_promised, treeVars>>

UnpinPageCall ==
    /\ BpmRunning
    /\ \E p \in CallPageIds(bpm), is_dirty \in BOOLEAN :
          LET res == UnpinPgImp(bpm, p, is_dirty)
          IN  /\ bpm' = res[1]
              /\ bpm_ret' = [op |-> "UnpinPage", ok |-> res[2], page_id |-> p,
                             frame_id |-> FrameOf(bpm, p)[2], from_disk |-> FALSE,
                             is_dirty |-> is_dirty]
              /\ bpm_promised' = IF res[2] /\ is_dirty
                                 THEN [bpm_promised EXCEPT
                                          ![p] = {bpm.pages[FrameOf(bpm, p)[2] + 1].data}]
                                 ELSE bpm_promised
    /\ UNCHANGED <<bpm_flush, ehtVars, repVars, treeVars>>

FlushPageCall ==
    /\ BpmRunning
    /\ \E p \in CallPageIds(bpm) :
          LET res == FlushPgImp(bpm, p)
          IN  /\ bpm' = res[1]
              /\ bpm_ret' = [op |-> "FlushPage", ok |-> res[2], page_id |-> p,
                             frame_id |-> FrameOf(bpm, p)[2], from_disk |-> FALSE, is_dirty |-> FALSE]
    /\ UNCHANGED <<bpm_flush, ehtVars, repVars, bpm_promised, treeVars>>

FlushAllPagesCall ==
    /\ BpmRunning
    /\ bpm' = FlushAllPgsImp(bpm)
    /\ bpm_ret' = [BpmRetNew EXCEPT !.op = "FlushAllPages"]
    /\ UNCHANGED <<bpm_flush, ehtVars, repVars, bpm_promised, treeVars>>

DeletePageCall ==
    /\ BpmRunning
    /\ \E p \in CallPageIds(bpm) :
          LET res == DeletePgImp(bpm, p)
          IN  /\ bpm' = res[1]
              /\ bpm_ret' = [op |-> "DeletePage", ok |-> res[2], page_id |-> p,
                             frame_id |-> FrameOf(bpm, p)[2], from_disk |-> FALSE, is_dirty |-> FALSE]
              /\ bpm_promised' = IF res[2] THEN [bpm_promised EXCEPT ![p] = {}]
                                 ELSE bpm_promised
    /\ UNCHANGED <<bpm_flush, ehtVars, repVars, treeVars>>

\* a caller that holds a pin on page p changes the bytes of the page
WritePageData ==
    /\ BpmRunning
    /\ \E p \in CallPageIds(bpm), d \in 1 .. MaxData :
          LET found == FrameOf(bpm, p)
          IN  /\ found[1]
              /\ bpm.pages[found[2] + 1].pin_count > 0
              /\ bpm.pages[found[2] + 1].data # d
              /\ bpm' = [bpm EXCEPT !.pages[found[2] + 1].data = d]
              /\ bpm_ret' = [op |-> "Write", ok |-> TRUE, page_id |-> p,
                             frame_id |-> found[2], from_disk |-> FALSE, is_dirty |-> FALSE]
              /\ bpm_promised' = [bpm_promised EXCEPT ![p] = {}]
    /\ UNCHANGED <<bpm_flush, ehtVars, repVars, treeVars>>


(***************************************************************************)
(* FlushAllPages next to the calls of another thread.  FlushAllPgsImp      *)
(* takes no latch: its loop reads next_page_id_ and calls page_table_->Find *)
(* and FlushPgImp, which lock and unlock for themselves                    *)
(***************************************************************************)
FlushAllPagesBegin ==
    /\ BpmRunning
    /\ bpm_flush.pc = "idle"
    /\ bpm_flush' = [pc |-> "test", page_id |-> 0]
    /\ bpm_ret' = [BpmRetNew EXCEPT !.op = "FlushAllPages begins"]
    /\ UNCHANGED <<bpm, bpm_promised, ehtVars, repVars, treeVars>>

\* the loop condition and page_table_->Find(page_id, frame_id)
FlushAllPagesTest ==
    /\ BpmRunning
    /\ bpm_flush.pc = "test"
    /\ IF bpm_flush.page_id >= bpm.next_page_id
       THEN /\ bpm_flush' = BpmFlushNew
            /\ bpm_ret' = [BpmRetNew EXCEPT !.op = "FlushAllPages"]
       ELSE /\ bpm_flush' = IF FrameOf(bpm, bpm_flush.page_id)[1]
                            THEN [bpm_flush EXCEPT !.pc = "flush"]
                            ELSE [bpm_flush EXCEPT !.page_id = @ + 1]
            /\ bpm_ret' = [BpmRetNew EXCEPT !.op = "FlushAllPages tests",
                                            !.page_id = bpm_flush.page_id]
    /\ UNCHANGED <<bpm, bpm_promised, ehtVars, repVars, treeVars>>

\* BUSTUB_ASSERT(FlushPgImp(page_id) != false, ...)
FlushAllPagesFlush ==
    /\ BpmRunning
    /\ bpm_flush.pc = "flush"
    /\ LET res == FlushPgImp(bpm, bpm_flush.page_id)
       IN  /\ bpm' = res[1]
           /\ bpm_flush' = IF res[2] THEN [pc |-> "test", page_id |-> bpm_flush.page_id + 1]
                           ELSE [bpm_flush EXCEPT !.pc = "aborted"]
           /\ bpm_ret' = [BpmRetNew EXCEPT !.op = "FlushAllPages flushes", !.ok = res[2],
                                           !.page_id = bpm_flush.page_id]
    /\ UNCHANGED <<bpm_promised, ehtVars, repVars, treeVars>>
(***************************************************************************)
(* The index and its client                                                *)
(*   tree       the index with its pool, as the last call left it          *)
(*   iter       the iterator of the client's loop and where the loop is    *)
(*   tree_hist  expected : key -> the values a lookup should find,         *)
(*              phase    : "insert" while only fresh keys were inserted,   *)
(*                         "remove" once inserted keys are being removed,  *)
(*                         "off" after any other call sequence,            *)
(*              visited  : the keys the running loop has read,             *)
(*              calls    : "updates" while only Insert and Remove were     *)
(*                         called, "loop" once one Begin() loop follows    *)
(*                         them, "other" after any other call,             *)
(*              ops      : the number of calls made                        *)
(***************************************************************************)
TreeRetNew ==
    [op |-> "none", key |-> 0, ok |-> FALSE, values |-> {}, count |-> 0,
     entry |-> <<0, 0>>, it |-> End]

\* BPlusTree::BPlusTree
TreeNew(buffer_pool_manager, leaf_max_size, internal_max_size) ==
    [bpm |-> buffer_pool_manager, root_page_id |-> INVALID_PAGE_ID,
     leaf_max_size |-> leaf_max_size, internal_max_size |-> internal_max_size,
     fault |-> "none", held |-> EmptyMap, bad_unpin |-> FALSE, ret |-> TreeRetNew]

\* the pool as the index finds it: the header page allocated and unpinned
TreePool(pool_size) ==
    UnpinPgImp(NewPgImp(BpmNew(pool_size, ReplacerK), <<>>)[1], HEADER_PAGE_ID, TRUE)[1]

\* no second thread is inside Insert
TreeThreadNew == [pc |-> "idle"]

IterNew == [page_id |-> INVALID_PAGE_ID, offset |-> 0, pc |-> "idle", whole |-> FALSE]

TreeHistoryNew ==
    [expected |-> [k \in TreeKeys |-> {}], phase |-> "insert", visited |-> <<>>,
     calls |-> "updates", ops |-> 0]

\* the index at the entry of a call: the call holds no pin yet
Enter(t) == [t EXCEPT !.held = EmptyMap, !.bad_unpin = FALSE]

ValueOf(key) == key + MaxKey

\* the client may make its next call; once a second thread has begun its Insert
\* the calls are those of TreeOtherCall and the run ends with the thread's return
TreeRunning ==
    /\ tree.fault = "none" /\ iter.pc = "idle" /\ tree_hist.ops < MaxTreeOps
    /\ tree_thread.pc = "idle"

\* the test it != End() of the client's loop
LoopTest(t) ==
    IF t.fault # "none" THEN "idle" ELSE IF t.ret.it = End THEN "done" ELSE "deref"

TreeInsertCall ==
    \E key \in DOMAIN tree_hist.expected :
        /\ TreeRunning
        /\ tree' = Val([c \in {Insert(Enter(tree), key, ValueOf(key))} |->
                       Return(c, [TreeRetNew EXCEPT !.op = "Insert", !.key = key,
                                                    !.ok = c.fault = "none" /\ c.ret])])
        /\ tree_hist' = [tree_hist EXCEPT
                            !.expected[key] = {ValueOf(key)},
                            !.phase = IF @ = "insert" /\ tree_hist.expected[key] = {}
                                      THEN "insert" ELSE "off",
                            !.calls = IF @ = "updates" THEN @ ELSE "other",
                            !.ops = @ + 1]
        /\ UNCHANGED <<tree_thread, ehtVars, repVars, bpmVars, iter>>

TreeRemoveCall ==
    \E key \in DOMAIN tree_hist.expected :
        /\ TreeRunning
        /\ tree' = Return(Remove(Enter(tree), key),
                          [TreeRetNew EXCEPT !.op = "Remove", !.key = key])
        /\ tree_hist' = [tree_hist EXCEPT
                            !.expected[key] = {},
                            !.phase = IF @ # "off" /\ tree_hist.expected[key] # {}
                                      THEN "remove" ELSE "off",
                            !.calls = IF @ = "updates" THEN @ ELSE "other",
                            !.ops = @ + 1]
        /\ UNCHANGED <<tree_thread, ehtVars, repVars, bpmVars, iter>>

GetValueCall ==
    \E key \in TreeKeys :
        /\ TreeRunning
        /\ tree' = Val([c \in {GetValue(Enter(tree), key)} |->
                       Return(c, IF c.fault # "none"
                                 THEN [TreeRetNew EXCEPT !.op = "GetValue", !.key = key]
                                 ELSE [TreeRetNew EXCEPT !.op = "GetValue", !.key = key,
                                                         !.ok = c.ret[1],
                                                         !.values = c.ret[2].values,
                                                         !.count = c.ret[2].count])])
        /\ tree_hist' = [tree_hist EXCEPT !.calls = "other", !.ops = @ + 1]
        /\ UNCHANGED <<tree_thread, ehtVars, repVars, bpmVars, iter>>

\* for (auto it = tree.Begin(); it != tree.End(); ++it)
BeginCall ==
    /\ tree.fault = "none" /\ iter.pc = "idle"
    /\ tree' = Val([c \in {Begin(Enter(tree))} |->
                   Return(c, [TreeRetNew EXCEPT !.op = "Begin",
                                                !.it = IF c.fault = "none" THEN c.ret ELSE End])])
    /\ iter' = [page_id |-> tree'.ret.it.page_id, offset |-> tree'.ret.it.offset,
                pc |-> LoopTest(tree'), whole |-> TRUE]
    /\ tree_hist' = [tree_hist EXCEPT !.visited = <<>>,
                                    !.calls = IF @ = "updates" THEN "loop" ELSE "other"]
    /\ UNCHANGED <<tree_thread, ehtVars, repVars, bpmVars>>

\* for (auto it = tree.Begin(key); it != tree.End(); ++it)
BeginAtCall ==
    \E key \in TreeKeys :
        /\ tree.fault = "none" /\ iter.pc = "idle"
        /\ tree' = Val([c \in {BeginAt(Enter(tree), key)} |->
                       Return(c, [TreeRetNew EXCEPT !.op = "Begin(key)", !.key = key,
                                                    !.it = IF c.fault = "none" THEN c.ret
                                                           ELSE End])])
        /\ iter' = [page_id |-> tree'.ret.it.page_id, offset |-> tree'.ret.it.offset,
                    pc |-> LoopTest(tree'), whole |-> FALSE]
        /\ tree_hist' = [tree_hist EXCEPT !.visited = <<>>, !.calls = "other"]
        /\ UNCHANGED <<tree_thread, ehtVars, repVars, bpmVars>>

\* the loop body reads *it
IteratorDerefCall ==
    /\ tree.fault = "none" /\ iter.pc = "deref" /\ Len(tree_hist.visited) < MaxVisited
    /\ tree' = Val([c \in {IteratorDeref(Enter(tree), [page_id |-> iter.page_id,
                                                       offset |-> iter.offset])} |->
                   Return(c, [TreeRetNew EXCEPT !.op = "operator*",
                                                !.entry = IF c.fault = "none" THEN c.ret
                                                          ELSE <<0, 0>>])])
    /\ iter' = [iter EXCEPT !.pc = "incr"]
    /\ tree_hist' = [tree_hist EXCEPT !.visited = Append(@, tree'.ret.entry[1])]
    /\ UNCHANGED <<tree_thread, ehtVars, repVars, bpmVars>>

\* ++it, then the test of the loop
IteratorNextCall ==
    /\ tree.fault = "none" /\ iter.pc = "incr"
    /\ tree' = Val([c \in {IteratorNext(Enter(tree), [page_id |-> iter.page_id,
                                                      offset |-> iter.offset])} |->
                   Return(c, [TreeRetNew EXCEPT !.op = "operator++",
                                                !.it = IF c.fault = "none" THEN c.ret
                                                       ELSE [page_id |-> iter.page_id,
                                                             offset |-> iter.offset]])])
    /\ iter' = [iter EXCEPT !.page_id = tree'.ret.it.page_id,
                            !.offset = tree'.ret.it.offset, !.pc = LoopTest(tree')]
    /\ UNCHANGED <<tree_thread, ehtVars, repVars, bpmVars, tree_hist>>


(***************************************************************************)
(* Insert of a second thread.  The index takes no latch: another call can  *)
(* run between any two statements of Insert.  The thread is followed up to *)
(* the end of the copy loop of InsertInLeaf, where it holds the leaf's     *)
(* size, the offset of its key and the copy of the entries in its locals,  *)
(* and from there to its return                                            *)
(***************************************************************************)
\* Insert from GetLeafPage to the end of the loop "copy[j] = arr[j]" of
\* InsertInLeaf; returns the thread's locals, or pc "false" after the return
\* for a duplicate key
InsertUpToCopy(c, key, value) ==
    Val([c1 \in {GetLeafPage(c, key)} |-> IF Faulted(c1) THEN c1 ELSE
    Val([c2 \in {FetchPage(c1, c1.ret)} |-> IF Faulted(c2) THEN c2 ELSE
    (LET leaf == Data(c2, c2.ret) IN
    IF \E i \in 0 .. leaf.size - 1 : KeyAt(leaf, i) = key
    THEN Return(UnpinPage(c2, leaf.page_id, FALSE), [pc |-> "false"])
    ELSE IF leaf.size > c.leaf_max_size THEN Fault(c2, "copy overrun")
    ELSE Return(c2, [pc |-> "InsertInLeaf", key |-> key, value |-> value,
                     leaf_page_id |-> c1.ret, leaf_page |-> c2.ret,
                     sz |-> leaf.size, i |-> UpperBound(leaf, 0, leaf.size, key),
                     copy |-> Built([j \in 0 .. leaf.size - 1 |-> ArrAt(leaf.array, j)]),
                     held |-> c2.held]))])])

\* arr[i] = entry, and arr[j] = copy[j - 1] for j = i + 1 .. sz, on the array as
\* it is now
ShiftInCopy(array, copy, i, sz, entry) ==
    Built([x \in DOMAIN array \cup (i .. sz) |->
              IF x = i THEN entry
              ELSE IF x > i /\ x <= sz THEN ArrAt(copy, x - 1)
              ELSE array[x]])

\* Insert from "arr[i] = MappingType(key, value)" of InsertInLeaf to its return
InsertFromCopy(c, th) ==
    (LET d == Data(c, th.leaf_page) IN
    Val([c3 \in {SetData(c, th.leaf_page,
                         [d EXCEPT !.array = ShiftInCopy(@, th.copy, th.i, th.sz,
                                                         <<th.key, th.value>>),
                                   !.size = @ + 1])} |->
    Val([c4 \in {IF Data(c3, th.leaf_page).size >= c.leaf_max_size
                 THEN SplitLeaf(c3, th.leaf_page) ELSE c3} |->
        IF Faulted(c4) THEN c4 ELSE Return(UnpinPage(c4, th.leaf_page_id, TRUE), TRUE)])]))

\* the call another thread makes meanwhile
OtherCalls == {[op |-> op, key |-> key] : op \in {"Insert", "Remove"}, key \in TreeKeys}

NoCall == [op |-> "none", key |-> 0]

ApplyCall(c, call) ==
    IF call.op = "Insert" THEN Insert(Enter(c), call.key, ValueOf(call.key))
    ELSE IF call.op = "Remove" THEN Remove(Enter(c), call.key)
    ELSE c

TreeInsertBegin ==
    \E key \in TreeKeys :
        /\ TreeRunning
        /\ tree_thread.pc = "idle"
        /\ ~IsEmpty(tree)
        /\ LET c == InsertUpToCopy(Enter(tree), key, ValueOf(key))
           IN  IF Faulted(c) \/ c.ret.pc = "false"
               THEN /\ tree' = Return(c, [TreeRetNew EXCEPT !.op = "Insert", !.key = key])
                    /\ tree_thread' = tree_thread
               ELSE /\ tree' = Return(c, [TreeRetNew EXCEPT !.op = "Insert begins", !.key = key])
                    /\ tree_thread' = [pc |-> "InsertInLeaf", locals |-> c.ret,
                                       entry |-> tree, other |-> NoCall]
        /\ tree_hist' = [tree_hist EXCEPT !.calls = "other", !.phase = "off", !.ops = @ + 1]
        /\ UNCHANGED <<ehtVars, repVars, bpmVars, iter>>

\* one Insert or Remove call of another thread while the Insert is under way
TreeOtherCall ==
    \E call \in OtherCalls :
        /\ tree.fault = "none" /\ tree_hist.ops < MaxTreeOps
        /\ tree_thread.pc = "InsertInLeaf"
        /\ tree_thread.other = NoCall
        /\ tree' = Val([c \in {ApplyCall(tree, call)} |->
                       Return(c, [TreeRetNew EXCEPT !.op = call.op, !.key = call.key,
                                                    !.ok = c.fault = "none" /\ call.op = "Insert"
                                                           /\ c.ret])])
        /\ tree_thread' = [tree_thread EXCEPT !.other = call]
        /\ tree_hist' = [tree_hist EXCEPT
                            !.expected[call.key] = IF call.op = "Insert" THEN {ValueOf(call.key)}
                                                   ELSE {},
                            !.ops = @ + 1]
        /\ UNCHANGED <<ehtVars, repVars, bpmVars, iter>>

TreeInsertFinish ==
    /\ tree.fault = "none"
    /\ tree_thread.pc = "InsertInLeaf"
    /\ tree' = Val([c \in {InsertFromCopy([tree EXCEPT !.held = tree_thread.locals.held,
                                                      !.bad_unpin = FALSE],
                                          tree_thread.locals)} |->
                   Return(c, [TreeRetNew EXCEPT !.op = "Insert", !.key = tree_thread.locals.key,
                                                !.ok = c.fault = "none" /\ c.ret])])
    /\ tree_thread' = [tree_thread EXCEPT !.pc = "returned"]
    /\ tree_hist' = [tree_hist EXCEPT !.expected[tree_thread.locals.key] =
                                         {tree_thread.locals.value}]
    /\ UNCHANGED <<ehtVars, repVars, bpmVars, iter>>

(***************************************************************************)
(* The seed scenario of the index: leaf_max_size 4, internal_max_size 5,   *)
(* Insert of the keys 1 .. 16 in ascending order, Begin(7) and *it, Remove *)
(* of 8, 9, 10 and 11, GetValue of the twelve keys that stay               *)
(***************************************************************************)
SeedKeys == 1 .. 16
SeedTree(pool_size) == TreeNew(TreePool(pool_size), 4, 5)
SeedRemoved == <<8, 9, 10, 11>>
SeedKept == <<1, 2, 3, 4, 5, 6, 7, 12, 13, 14, 15, 16>>

SeedCalls ==
    [i \in SeedKeys |-> [op |-> "Insert", key |-> i]]
        \o <<[op |-> "Begin(key)", key |-> 7], [op |-> "operator*", key |-> 7]>>
        \o [i \in 1 .. Len(SeedRemoved) |-> [op |-> "Remove", key |-> SeedRemoved[i]]]
        \o [i \in 1 .. Len(SeedKept) |-> [op |-> "GetValue", key |-> SeedKept[i]]]

\* the pools the scenario is run on
SeedPoolSizes == {20, 30, 50}

SeedHistoryNew ==
    [expected |-> [k \in SeedKeys |-> {}], phase |-> "insert", visited |-> <<>>,
     calls |-> "updates", ops |-> 0]

\* the next call of the scenario, the calls made so far being tree_hist.ops
TreeSeedCall ==
    /\ tree.fault = "none"
    /\ tree_hist.ops < Len(SeedCalls)
    /\ LET call == SeedCalls[tree_hist.ops + 1]
           ret == [TreeRetNew EXCEPT !.op = call.op, !.key = call.key]
       IN  /\ tree' =
                  CASE call.op = "Insert" ->
                           Val([c \in {Insert(Enter(tree), call.key, ValueOf(call.key))} |->
                               Return(c, [ret EXCEPT !.ok = c.fault = "none" /\ c.ret])])
                    [] call.op = "Remove" -> Return(Remove(Enter(tree), call.key), ret)
                    [] call.op = "Begin(key)" ->
                           Val([c \in {BeginAt(Enter(tree), call.key)} |->
                               Return(c, [ret EXCEPT !.it = IF c.fault = "none" THEN c.ret
                                                            ELSE End])])
                    [] call.op = "operator*" ->
                           Val([c \in {IteratorDeref(Enter(tree), [page_id |-> iter.page_id,
                                                                   offset |-> iter.offset])} |->
                               Return(c, [ret EXCEPT !.entry = IF c.fault = "none" THEN c.ret
                                                               ELSE <<0, 0>>])])
                    [] call.op = "GetValue" ->
                           Val([c \in {GetValue(Enter(tree), call.key)} |->
                               Return(c, IF c.fault # "none" THEN ret
                                         ELSE [ret EXCEPT !.ok = c.ret[1],
                                                          !.values = c.ret[2].values,
                                                          !.count = c.ret[2].count])])
           /\ iter' = IF call.op = "Begin(key)"
                      THEN [page_id |-> tree'.ret.it.page_id, offset |-> tree'.ret.it.offset,
                            pc |-> "deref", whole |-> FALSE]
                      ELSE iter
           /\ tree_hist' = [tree_hist EXCEPT
                               !.expected[call.key] = IF call.op = "Insert" THEN {ValueOf(call.key)}
                                                      ELSE IF call.op = "Remove" THEN {}
                                                      ELSE @,
                               !.ops = @ + 1]
    /\ UNCHANGED <<tree_thread, ehtVars, repVars, bpmVars>>

(***************************************************************************)
(* The index after it has been in use: trees of more than one level, built *)
(* by Insert calls on a pool large enough for them, on which the client    *)
(* then calls Insert and Remove with the keys of `keys`                    *)
(***************************************************************************)
AgedTreePoolSize == 40

\* the Insert calls of the keys of the sequence keys, one after the other
RECURSIVE InsertAll(_, _)
InsertAll(t, keys) ==
    IF keys = <<>> \/ t.fault # "none" THEN t
    ELSE InsertAll(Insert(Enter(t), Head(keys), ValueOf(Head(keys))), Tail(keys))

AgedTreeConfigs ==
    {[leaf_max_size |-> 3, internal_max_size |-> 3, inserted |-> <<1, 2, 3, 4>>,
      keys |-> {1, 2, 3, 4}],
     [leaf_max_size |-> 2, internal_max_size |-> 3, inserted |-> <<1, 2, 3, 4, 5, 6, 7, 8>>,
      keys |-> {1, 2, 3, 4}],
     [leaf_max_size |-> 2, internal_max_size |-> 3, inserted |-> <<1, 2, 3, 4, 5, 6, 7, 8>>,
      keys |-> {3, 5, 7, 8}],
     [leaf_max_size |-> 5, internal_max_size |-> 3, inserted |-> <<1, 2, 3, 4, 5, 6, 7, 8>>,
      keys |-> {1, 2, 7, 8}],
     [leaf_max_size |-> 5, internal_max_size |-> 3, inserted |-> <<1, 2, 3, 4, 5, 6, 7>>,
      keys |-> {1, 4, 5, 7}]}

AgedTree(config) ==
    Return(Enter(InsertAll(TreeNew(TreePool(AgedTreePoolSize), config.leaf_max_size,
                                   config.internal_max_size),
                           config.inserted)),
           TreeRetNew)

AgedTreeHistory(config) ==
    [TreeHistoryNew EXCEPT
        !.expected = [k \in config.keys |->
                         IF \E i \in 1 .. Len(config.inserted) : config.inserted[i] = k
                         THEN {ValueOf(k)} ELSE {}],
        !.phase = "off"]
(***************************************************************************)
(* The specifications                                                      *)
(***************************************************************************)
NextEHT == EhtInsertCall \/ EhtRemoveCall \/ EhtTestCall

InitEHT ==
    /\ \/ /\ \E bs \in BucketSizes : eht = EhtNew(bs)
          /\ eht_ret = EhtRetNew
          /\ eht_run = EhtRunNew
          /\ eht_last = EhtHistoryNew
       \/ \E test \in EhtTests :
             /\ eht = EhtNew(TestBucketSize(test))
             /\ eht_ret = [EhtRetNew EXCEPT !.value = ""]
             /\ eht_run = [test |-> test, pos |-> 0, keys |-> {}]
             /\ eht_last = EhtHistoryNew
       \/ /\ eht = AgedTable
          /\ eht_ret = EhtRetNew
          /\ eht_run = [EhtRunNew EXCEPT !.keys = AgedCallKeys]
          /\ eht_last = AgedHistory
    /\ rep = ReplacerNew(ReplacerFrames, ReplacerK)
    /\ rep_ret = ReplacerRetNew
    /\ rep_dropped = {}
    /\ bpm = BpmNew(PoolSize, ReplacerK)
    /\ bpm_ret = BpmRetNew
    /\ bpm_flush = BpmFlushNew
    /\ bpm_promised = BpmPromisedNew
    /\ tree = TreeNew(TreePool(TreePoolSize), MinLeafMaxSize, InternalMaxSize)
    /\ iter = IterNew
    /\ tree_thread = TreeThreadNew
    /\ tree_hist = TreeHistoryNew

SpecEHT == InitEHT /\ [][NextEHT]_vars

NextEhtThreads == EhtThreadStep

InitEhtThreads ==
    /\ eht = EhtNew(ThreadBucketSize)
    /\ eht_last = EhtHistoryNew
    /\ eht_ret = EhtRetNew
    /\ eht_run = ThreadsNew
    /\ rep = ReplacerNew(ReplacerFrames, ReplacerK)
    /\ rep_ret = ReplacerRetNew
    /\ rep_dropped = {}
    /\ bpm = BpmNew(PoolSize, ReplacerK)
    /\ bpm_ret = BpmRetNew
    /\ bpm_flush = BpmFlushNew
    /\ bpm_promised = BpmPromisedNew
    /\ tree = TreeNew(TreePool(TreePoolSize), MinLeafMaxSize, InternalMaxSize)
    /\ iter = IterNew
    /\ tree_thread = TreeThreadNew
    /\ tree_hist = TreeHistoryNew

SpecEhtThreads == InitEhtThreads /\ [][NextEhtThreads]_vars

NextLRU == RecordAccessCall \/ SetEvictableCall \/ EvictCall \/ RemoveCall

InitLRU ==
    /\ eht = EhtNew(PageTableBucketSize)
    /\ eht_last = EhtHistoryNew
    /\ eht_ret = EhtRetNew
    /\ eht_run = EhtRunNew
    /\ rep = ReplacerNew(ReplacerFrames, ReplacerK)
    /\ rep_ret = ReplacerRetNew
    /\ rep_dropped = {}
    /\ bpm = BpmNew(PoolSize, ReplacerK)
    /\ bpm_ret = BpmRetNew
    /\ bpm_flush = BpmFlushNew
    /\ bpm_promised = BpmPromisedNew
    /\ tree = TreeNew(TreePool(TreePoolSize), MinLeafMaxSize, InternalMaxSize)
    /\ iter = IterNew
    /\ tree_thread = TreeThreadNew
    /\ tree_hist = TreeHistoryNew

SpecLRU == InitLRU /\ [][NextLRU]_vars

NextBPM ==
    \/ NewPageCall \/ FetchPageCall \/ UnpinPageCall \/ FlushPageCall
    \/ FlushAllPagesCall \/ DeletePageCall \/ WritePageData

InitBPM ==
    /\ eht = EhtNew(PageTableBucketSize)
    /\ eht_last = EhtHistoryNew
    /\ eht_ret = EhtRetNew
    /\ eht_run = EhtRunNew
    /\ rep = ReplacerNew(ReplacerFrames, ReplacerK)
    /\ rep_ret = ReplacerRetNew
    /\ rep_dropped = {}
    /\ \/ \E pool_size \in 1 .. PoolSize : bpm = BpmNew(pool_size, ReplacerK)
       \/ bpm = AgedPool
       \/ bpm = ReopenedPool
    /\ bpm_ret = BpmRetNew
    /\ bpm_flush = BpmFlushNew
    /\ bpm_promised = BpmPromisedNew
    /\ tree = TreeNew(TreePool(TreePoolSize), MinLeafMaxSize, InternalMaxSize)
    /\ iter = IterNew
    /\ tree_thread = TreeThreadNew
    /\ tree_hist = TreeHistoryNew

SpecBPM == InitBPM /\ [][NextBPM]_vars

NextBpmThreads ==
    \/ FlushAllPagesBegin \/ FlushAllPagesTest \/ FlushAllPagesFlush
    \/ NewPageCall \/ FetchPageCall \/ UnpinPageCall \/ DeletePageCall \/ WritePageData

InitBpmThreads ==
    /\ eht = EhtNew(PageTableBucketSize)
    /\ eht_last = EhtHistoryNew
    /\ eht_ret = EhtRetNew
    /\ eht_run = EhtRunNew
    /\ rep = ReplacerNew(ReplacerFrames, ReplacerK)
    /\ rep_ret = ReplacerRetNew
    /\ rep_dropped = {}
    /\ bpm = BpmNew(1, ReplacerK)
    /\ bpm_ret = BpmRetNew
    /\ bpm_flush = BpmFlushNew
    /\ bpm_promised = BpmPromisedNew
    /\ tree = TreeNew(TreePool(TreePoolSize), MinLeafMaxSize, InternalMaxSize)
    /\ iter = IterNew
    /\ tree_thread = TreeThreadNew
    /\ tree_hist = TreeHistoryNew

SpecBpmThreads == InitBpmThreads /\ [][NextBpmThreads]_vars

NextTree ==
    \/ TreeInsertCall \/ TreeRemoveCall \/ GetValueCall
    \/ BeginCall \/ BeginAtCall \/ IteratorDerefCall \/ IteratorNextCall

InitTree ==
    /\ eht = EhtNew(PageTableBucketSize)
    /\ eht_last = EhtHistoryNew
    /\ eht_ret = EhtRetNew
    /\ eht_run = EhtRunNew
    /\ rep = ReplacerNew(ReplacerFrames, ReplacerK)
    /\ rep_ret = ReplacerRetNew
    /\ rep_dropped = {}
    /\ bpm = BpmNew(PoolSize, ReplacerK)
    /\ bpm_ret = BpmRetNew
    /\ bpm_flush = BpmFlushNew
    /\ bpm_promised = BpmPromisedNew
    /\ \E leaf_max_size \in MinLeafMaxSize .. LeafMaxSize :
           tree = TreeNew(TreePool(TreePoolSize), leaf_max_size, InternalMaxSize)
    /\ iter = IterNew
    /\ tree_thread = TreeThreadNew
    /\ tree_hist = TreeHistoryNew

SpecTree == InitTree /\ [][NextTree]_vars

NextTreeThreads ==
    \/ TreeInsertCall \/ TreeRemoveCall
    \/ TreeInsertBegin \/ TreeOtherCall \/ TreeInsertFinish

SpecTreeThreads == InitTree /\ [][NextTreeThreads]_vars

NextTreeSeed == TreeSeedCall

InitTreeSeed ==
    /\ eht = EhtNew(PageTableBucketSize)
    /\ eht_last = EhtHistoryNew
    /\ eht_ret = EhtRetNew
    /\ eht_run = EhtRunNew
    /\ rep = ReplacerNew(ReplacerFrames, ReplacerK)
    /\ rep_ret = ReplacerRetNew
    /\ rep_dropped = {}
    /\ bpm = BpmNew(PoolSize, ReplacerK)
    /\ bpm_ret = BpmRetNew
    /\ bpm_flush = BpmFlushNew
    /\ bpm_promised = BpmPromisedNew
    /\ \E pool_size \in SeedPoolSizes :
          tree = SeedTree(pool_size)
    /\ iter = IterNew
    /\ tree_thread = TreeThreadNew
    /\ tree_hist = SeedHistoryNew

SpecTreeSeed == InitTreeSeed /\ [][NextTreeSeed]_vars

NextTreeAged == TreeInsertCall \/ TreeRemoveCall

InitTreeAged ==
    /\ eht = EhtNew(PageTableBucketSize)
    /\ eht_last = EhtHistoryNew
    /\ eht_ret = EhtRetNew
    /\ eht_run = EhtRunNew
    /\ rep = ReplacerNew(ReplacerFrames, ReplacerK)
    /\ rep_ret = ReplacerRetNew
    /\ rep_dropped = {}
    /\ bpm = BpmNew(PoolSize, ReplacerK)
    /\ bpm_ret = BpmRetNew
    /\ bpm_flush = BpmFlushNew
    /\ bpm_promised = BpmPromisedNew
    /\ \E config \in AgedTreeConfigs :
          /\ tree = AgedTree(config)
          /\ tree_hist = AgedTreeHistory(config)
    /\ iter = IterNew
    /\ tree_thread = TreeThreadNew

SpecTreeAged == InitTreeAged /\ [][NextTreeAged]_vars

(***************************************************************************)
(* The properties                                                          *)
(***************************************************************************)

\* C3: after any sequence of Insert and Remove calls, Find(k) returns the value
\* of the most recent Insert(k, v) if k was not removed since, and reports
\* absent otherwise.
C3_FindReturnsLastInsert ==
    ~eht.stuck => \A k \in EhtKeys : EhtLookup(eht, k) = eht_last[k]

\* C9: two directory slots whose indices agree on the low local_depth bits of
\* the bucket one of them references point to the same bucket, and every key
\* stored in a bucket hashes, under the current global depth, to a slot that
\* points to that bucket.
C9_DirectoryConsistent ==
    /\ \A i, j \in 1 .. Len(eht.dir) :
          LET local_bit == Pow2(eht.buckets[eht.dir[i]].depth)
          IN  LowBits(i - 1, local_bit) = LowBits(j - 1, local_bit)
                  => eht.dir[j] = eht.dir[i]
    /\ \A id \in 1 .. Len(eht.buckets) :
          \A n \in 1 .. Len(eht.buckets[id].list) :
              eht.dir[IndexOf(eht, eht.buckets[id].list[n][1]) + 1] = id

YoungFrames(r) == {f \in DOMAIN r.frame_map : Len(r.frame_map[f]) < r.k}

\* C5: Evict returns, among the evictable frames, the one with fewer than k
\* accesses whose first access is earliest if there is one, otherwise the one
\* whose k-th most recent access is smallest; never a non-evictable frame; and
\* false, with Size() unchanged, when no frame is evictable.
C5_EvictVictim ==
    [][rep_ret'.op = "Evict" =>
          IF DOMAIN rep.frame_map = {}
          THEN ~rep_ret'.ok /\ ReplacerSize(rep') = ReplacerSize(rep)
          ELSE LET victim == rep_ret'.frame_id
               IN  /\ rep_ret'.ok
                   /\ victim \in DOMAIN rep.frame_map
                   /\ victim \notin DOMAIN rep.non_evict_frames
                   /\ victim \notin DOMAIN rep'.frame_map
                   /\ ReplacerSize(rep') = ReplacerSize(rep) - 1
                   /\ IF YoungFrames(rep) # {}
                      THEN /\ victim \in YoungFrames(rep)
                           /\ \A g \in YoungFrames(rep) :
                                 rep.frame_map[victim][1] <= rep.frame_map[g][1]
                      ELSE \A g \in DOMAIN rep.frame_map :
                              FindKthPreviousTimestamp(rep.frame_map[victim], rep.k)
                                  <= FindKthPreviousTimestamp(rep.frame_map[g], rep.k)]_vars

\* Evict has just taken a frame and left an evictable frame with fewer than k
\* accesses, another with k accesses or more and a non-evictable one
C5_Witness ==
    /\ rep_ret.op = "Evict" /\ rep_ret.ok
    /\ YoungFrames(rep) # {}
    /\ DOMAIN rep.frame_map \ YoungFrames(rep) # {}

\* the frames of pool b
Frames(b) == 0 .. b.pool_size - 1

\* the frames on the free list of pool b
FreeFrames(b) == {b.free_list[i] : i \in 1 .. Len(b.free_list)}

\* the frames of pool b whose Page object reports page_id
FramesOf(b, page_id) == {f \in Frames(b) : b.pages[f + 1].page_id = page_id}

Saturated(b) ==
    b.free_list = <<>> /\ \A f \in Frames(b) : b.pages[f + 1].pin_count > 0

PinCount(b, page_id) ==
    IF \E f \in Frames(b) : b.pages[f + 1].page_id = page_id
    THEN b.pages[(CHOOSE f \in Frames(b) : b.pages[f + 1].page_id = page_id) + 1].pin_count
    ELSE 0

\* C8: every index and iterator operation (GetValue, Insert, Remove, Begin(),
\* Begin(key), operator*, operator++) leaves every page's pin count as it found
\* it, is never refused a frame by the pool, and never calls UnpinPage on a page
\* it does not hold pinned.
C8_PinBalance ==
    [][/\ tree'.fault # "null page"
       /\ tree'.fault = "none" =>
             /\ ~tree'.bad_unpin
             /\ \A page_id \in 0 .. tree'.bpm.next_page_id - 1 :
                    PinCount(tree'.bpm, page_id) = PinCount(tree.bpm, page_id)]_vars

\* C1: after Insert calls with unique keys followed by Remove calls of a subset
\* of the inserted keys, GetValue returns exactly the inserted value of every
\* key that was not removed and finds nothing for a removed key.
C1_RoundTrip ==
    tree_hist.phase # "off" /\ tree_hist.calls = "updates" =>
        /\ tree.fault = "none"
        /\ \A key \in TreeKeys :
               Val([c \in {GetValue(Enter(tree), key)} |->
                   /\ c.fault = "none"
                   /\ c.ret[1] = (tree_hist.expected[key] # {})
                   /\ c.ret[2].values = tree_hist.expected[key]
                   /\ c.ret[2].count = Cardinality(tree_hist.expected[key])])

\* the keys of S in ascending order
RECURSIVE Ascending(_)
Ascending(S) ==
    IF S = {} THEN <<>>
    ELSE (LET k == CHOOSE x \in S : \A y \in S : x <= y IN <<k>> \o Ascending(S \ {k}))

InsertedKeys == {key \in TreeKeys : tree_hist.expected[key] # {}}

\* C4: after any sequence of Insert calls with unique keys, the loop from
\* Begin() with ++ until the iterator equals End() visits every inserted key
\* exactly once, in strictly ascending order, and then reaches End().
C4_IterationAscending ==
    tree_hist.phase = "insert" /\ tree_hist.calls # "other" /\ InsertedKeys # {} =>
        /\ tree.fault = "none"
        /\ tree_hist.calls = "loop" =>
              /\ Len(tree_hist.visited) <= Cardinality(InsertedKeys)
              /\ tree_hist.visited = SubSeq(Ascending(InsertedKeys), 1, Len(tree_hist.visited))
              /\ iter.pc = "done" => Len(tree_hist.visited) = Cardinality(InsertedKeys)
              /\ iter.pc = "deref" => Len(tree_hist.visited) < Cardinality(InsertedKeys)


(***************************************************************************)
(* Extendible hash table: termination and the effect of Insert on a key    *)
(* that is already stored                                                  *)
(***************************************************************************)
\* C11: every Insert(k, v), on every reachable table, for every bucket size and
\* for a new key as for a stored one, stores the entry and returns after
\* finitely many splits.
C11_InsertTerminates == ~eht.stuck

\* the table t with the value stored under key replaced by value
EhtWithValue(t, key, value) ==
    [t EXCEPT !.buckets = [b \in DOMAIN t.buckets |->
                              [t.buckets[b] EXCEPT !.list =
                                  [i \in DOMAIN t.buckets[b].list |->
                                      IF t.buckets[b].list[i][1] = key
                                      THEN <<key, value>> ELSE t.buckets[b].list[i]]]]]

\* C18: Insert(k, v) for a key k that is stored only replaces the value of k:
\* no split happens, so the global depth, every local depth, the number of
\* buckets, the directory and every other entry are as before, also when the
\* bucket of k is full.
C18_UpdateInPlace ==
    [][eht_ret'.op = "Insert" /\ EhtLookup(eht, eht_ret'.key) # {} =>
           /\ ~eht'.stuck
           /\ eht' = EhtWithValue(eht, eht_ret'.key, eht_ret'.value)]_vars

(***************************************************************************)
(* B+ tree: what the pages of the tree hold                                *)
(***************************************************************************)
\* the bytes of page page_id: those of its frame when the page is resident, else
\* those on disk
PageImage(t, page_id) ==
    IF \E f \in Frames(t.bpm) : t.bpm.pages[f + 1].page_id = page_id
    THEN t.bpm.pages[(CHOOSE f \in Frames(t.bpm) : t.bpm.pages[f + 1].page_id = page_id) + 1].data
    ELSE ReadPage(t.bpm, page_id)

\* the ids of the pages of the subtree at page_id, followed through at most
\* depth levels of child pointers
RECURSIVE SubtreePageIds(_, _, _)
SubtreePageIds(t, page_id, depth) ==
    IF ~IsTreePageId(t, page_id) THEN {}
    ELSE IF IsLeafPage(PageImage(t, page_id)) \/ depth = 0 THEN {page_id}
    ELSE {page_id} \cup UNION {SubtreePageIds(t, ValueAt(PageImage(t, page_id), i), depth - 1) :
                                  i \in 0 .. PageImage(t, page_id).size - 1}

TreePageIds(t) == SubtreePageIds(t, t.root_page_id, MaxKey)

\* the entries of the leaves of the tree
TreeEntries(t) ==
    UNION {{ArrAt(PageImage(t, page_id).array, i) : i \in 0 .. PageImage(t, page_id).size - 1} :
              page_id \in {p \in TreePageIds(t) : IsLeafPage(PageImage(t, p))}}

TreeKeySet(t) == {entry[1] : entry \in TreeEntries(t)}

\* every page of the tree as t holds it is the page t2 holds
SamePages(t, t2) ==
    /\ t2.root_page_id = t.root_page_id
    /\ \A page_id \in TreePageIds(t) : PageImage(t2, page_id) = PageImage(t, page_id)

CeilHalf(n) == (n + 1) \div 2

\* C12: after every Insert and every Remove every leaf that is not the root
\* holds between ceil_half(leaf_max_size) and leaf_max_size entries and every
\* internal page that is not the root between ceil_half(internal_max_size) and
\* internal_max_size, for even and for odd maximum sizes.
C12_Balanced ==
    tree.fault = "none" =>
        \A page_id \in TreePageIds(tree) \ {tree.root_page_id} :
            IF IsLeafPage(PageImage(tree, page_id))
            THEN /\ PageImage(tree, page_id).size >= CeilHalf(tree.leaf_max_size)
                 /\ PageImage(tree, page_id).size <= tree.leaf_max_size
            ELSE /\ PageImage(tree, page_id).size >= CeilHalf(tree.internal_max_size)
                 /\ PageImage(tree, page_id).size <= tree.internal_max_size

\* C13: Remove(key) of a key that is not in the tree changes nothing: every page
\* of the tree, the root page id and the keys GetValue finds are as before.
C13_RemoveAbsentKey ==
    [][tree'.ret.op = "Remove" /\ tree'.ret.key \notin TreeKeySet(tree) =>
           /\ tree'.fault = "none"
           /\ SamePages(tree, tree')
           /\ TreeKeySet(tree') = TreeKeySet(tree)]_vars

\* C14: Insert(key, value) of a key in the tree returns false and leaves every
\* page of the tree and the root page id as they were; Insert of a key that is
\* not in the tree returns true.
C14_InsertDuplicate ==
    [][tree'.ret.op = "Insert" =>
           IF tree'.ret.key \in TreeKeySet(tree)
           THEN /\ tree'.fault = "none"
                /\ ~tree'.ret.ok
                /\ SamePages(tree, tree')
           ELSE tree'.fault = "none" /\ tree'.ret.ok]_vars

(***************************************************************************)
(* LRU-K replacer: Size()                                                  *)
(***************************************************************************)
\* C17: after any sequence of RecordAccess, SetEvictable, Evict and Remove calls
\* (each runs under the latch, so concurrent calls take effect one at a time),
\* Size() is the number of frames that are tracked and marked evictable.
C17_SizeCountsEvictable ==
    /\ ReplacerSize(rep) = Cardinality(DOMAIN rep.frame_map)
    /\ DOMAIN rep.frame_map \cap DOMAIN rep.non_evict_frames = {}

\* an Evict took one of two evictable frames while a third frame is pinned
C17_Witness ==
    /\ rep_ret.op = "Evict" /\ rep_ret.ok
    /\ ReplacerSize(rep) = 1
    /\ DOMAIN rep.non_evict_frames # {}
(***************************************************************************)
(* Buffer pool: the classes of frames, the page table, UnpinPage and       *)
(* DeletePage                                                              *)
(***************************************************************************)
\* the frames of pool b that hold a page
Resident(b) == {f \in Frames(b) : b.pages[f + 1].page_id # INVALID_PAGE_ID}

\* how many times frame f is listed on the free list of pool b
TimesFree(b, f) == Cardinality({i \in 1 .. Len(b.free_list) : b.free_list[i] = f})

\* the <<page id, frame id>> entries of the page table of pool b
PageTableEntries(b) ==
    UNION {{b.page_table.buckets[i].list[j] : j \in 1 .. Len(b.page_table.buckets[i].list)} :
              i \in 1 .. Len(b.page_table.buckets)}

C16_PageTableConsistent ==
    /\ \A f \in Resident(bpm) : FrameOf(bpm, bpm.pages[f + 1].page_id) = <<TRUE, f>>
    /\ \A f \in Resident(bpm) : FramesOf(bpm, bpm.pages[f + 1].page_id) = {f}
    /\ \A entry \in PageTableEntries(bpm) :
          /\ entry[2] \notin FreeFrames(bpm)
          /\ bpm.pages[entry[2] + 1].page_id = entry[1]

\* C19: UnpinPage(pid, is_dirty) returns false and changes nothing when no
\* frame holds pid or the pin count of pid is 0; otherwise it returns true,
\* the pin count falls by exactly 1, and a page that was dirty or is unpinned
\* with is_dirty stays dirty unless its bytes have been written to disk.  No
\* pin count is negative afterwards.
C19_UnpinContract ==
    [][bpm_ret'.op = "UnpinPage" =>
          /\ IF \A f \in FramesOf(bpm, bpm_ret'.page_id) : bpm.pages[f + 1].pin_count = 0
             THEN ~bpm_ret'.ok /\ bpm' = bpm
             ELSE /\ bpm_ret'.ok
                  /\ \E f \in FramesOf(bpm, bpm_ret'.page_id) :
                        /\ bpm'.pages[f + 1].page_id = bpm_ret'.page_id
                        /\ bpm'.pages[f + 1].pin_count = bpm.pages[f + 1].pin_count - 1
                        /\ bpm.pages[f + 1].is_dirty \/ bpm_ret'.is_dirty
                              => \/ bpm'.pages[f + 1].is_dirty
                                 \/ ReadPage(bpm', bpm_ret'.page_id) = bpm.pages[f + 1].data
          /\ \A f \in Frames(bpm') : bpm'.pages[f + 1].pin_count >= 0]_vars

\* C20: DeletePage(pid) on a resident page with pin count > 0 returns false
\* and leaves the free list, the page table, the replacer and the frames as
\* they are; on a page no frame holds it returns true and changes nothing; on
\* a resident page with pin count 0 it returns true, and afterwards pid is not
\* in the page table, its frame is on the free list and holds no page, and
\* the replacer does not track the frame.
C20_DeleteContract ==
    [][bpm_ret'.op = "DeletePage" =>
          IF FramesOf(bpm, bpm_ret'.page_id) = {}
          THEN bpm_ret'.ok /\ bpm' = bpm
          ELSE IF \E f \in FramesOf(bpm, bpm_ret'.page_id) : bpm.pages[f + 1].pin_count > 0
          THEN /\ ~bpm_ret'.ok
               /\ bpm'.free_list = bpm.free_list
               /\ bpm'.page_table = bpm.page_table
               /\ bpm'.replacer = bpm.replacer
               /\ bpm'.pages = bpm.pages
          ELSE /\ bpm_ret'.ok
               /\ ~FrameOf(bpm', bpm_ret'.page_id)[1]
               /\ \A f \in FramesOf(bpm, bpm_ret'.page_id) :
                     /\ f \in FreeFrames(bpm')
                     /\ bpm'.pages[f + 1].page_id = INVALID_PAGE_ID
                     /\ f \notin DOMAIN bpm'.replacer.frame_map
                     /\ f \notin DOMAIN bpm'.replacer.non_evict_frames]_vars

(***************************************************************************)
(* LRU-K replacer: Remove and SetEvictable                                 *)
(***************************************************************************)
\* the access history of every frame replacer r tracks
Histories(r) == r.frame_map @@ r.non_evict_frames

\* C25: Remove(fid) on a tracked evictable frame stops tracking it and lowers
\* Size() by 1, leaving the other frames as they are; on an untracked frame it
\* changes neither Size() nor any tracked frame; on a tracked frame that is
\* not evictable it aborts and the frame stays tracked.
C25_RemoveContract ==
    [][rep_ret'.op = "Remove" =>
          IF rep_ret'.frame_id \in DOMAIN rep.frame_map
          THEN /\ ~rep'.aborted
               /\ rep_ret'.frame_id \notin DOMAIN Histories(rep')
               /\ ReplacerSize(rep') = ReplacerSize(rep) - 1
               /\ rep'.frame_map = MapErase(rep.frame_map, rep_ret'.frame_id)
               /\ rep'.non_evict_frames = rep.non_evict_frames
          ELSE IF rep_ret'.frame_id \in DOMAIN rep.non_evict_frames
          THEN /\ rep'.aborted
               /\ rep'.non_evict_frames = rep.non_evict_frames
               /\ rep'.frame_map = rep.frame_map
          ELSE /\ ~rep'.aborted
               /\ ReplacerSize(rep') = ReplacerSize(rep)
               /\ rep'.frame_map = rep.frame_map
               /\ rep'.non_evict_frames = rep.non_evict_frames]_vars

\* Remove was called on a frame that is tracked and not evictable, while
\* another frame is evictable
C25_Witness ==
    /\ rep_ret.op = "Remove"
    /\ rep.aborted
    /\ rep_ret.frame_id \in DOMAIN rep.non_evict_frames
    /\ DOMAIN rep.frame_map # {}

\* C26: SetEvictable(fid, b) leaves Size(), the tracked frames and every
\* access history as they are when fid is untracked or has evictability b
\* already; when it flips a tracked frame it changes Size() by exactly 1,
\* moves only that frame between the evictable and the non-evictable frames,
\* and keeps every access history, that of the flipped frame included.
C26_SetEvictableContract ==
    [][rep_ret'.op = "SetEvictable" =>
          /\ ~rep'.aborted
          /\ Histories(rep') = Histories(rep)
          /\ IF rep_ret'.frame_id \in DOMAIN rep.frame_map /\ ~rep_ret'.ok
             THEN /\ ReplacerSize(rep') = ReplacerSize(rep) - 1
                  /\ DOMAIN rep'.frame_map = DOMAIN rep.frame_map \ {rep_ret'.frame_id}
             ELSE IF rep_ret'.frame_id \in DOMAIN rep.non_evict_frames /\ rep_ret'.ok
             THEN /\ ReplacerSize(rep') = ReplacerSize(rep) + 1
                  /\ DOMAIN rep'.frame_map = DOMAIN rep.frame_map \cup {rep_ret'.frame_id}
             ELSE /\ ReplacerSize(rep') = ReplacerSize(rep)
                  /\ DOMAIN rep'.frame_map = DOMAIN rep.frame_map]_vars

\* SetEvictable(fid, true) has left evictable a frame with more than one
\* access in its history while another frame stays non-evictable
C26_Witness ==
    /\ rep_ret.op = "SetEvictable" /\ rep_ret.ok
    /\ rep_ret.frame_id \in DOMAIN rep.frame_map
    /\ Len(rep.frame_map[rep_ret.frame_id]) > 1
    /\ DOMAIN rep.non_evict_frames # {}


\* C27: Remove(k) returns true exactly when k was stored (inserted and not
\* removed since), Find(k) reports absent after it, and the call changes
\* neither the global depth, a local depth, the bucket count, the directory
\* nor what Find reports for another key.
C27_RemoveReturnsStored ==
    [][eht_ret'.op = "Remove" =>
          /\ eht_ret'.ok <=> eht_last[eht_ret'.key] # {}
          /\ EhtLookup(eht', eht_ret'.key) = {}
          /\ eht'.global_depth = eht.global_depth
          /\ eht'.num_buckets = eht.num_buckets
          /\ eht'.dir = eht.dir
          /\ Len(eht'.buckets) = Len(eht.buckets)
          /\ \A id \in 1 .. Len(eht.buckets) : eht'.buckets[id].depth = eht.buckets[id].depth
          /\ \A k \in DOMAIN eht_last \ {eht_ret'.key} : EhtLookup(eht', k) = EhtLookup(eht, k)]_vars

\* the part of C27 that does not depend on the key being reachable: what Remove
\* returns is what Find reported before the call, and the rest of the table stays
C27_RemoveFrame ==
    [][eht_ret'.op = "Remove" =>
          /\ eht_ret'.ok <=> EhtLookup(eht, eht_ret'.key) # {}
          /\ EhtLookup(eht', eht_ret'.key) = {}
          /\ eht'.global_depth = eht.global_depth
          /\ eht'.num_buckets = eht.num_buckets
          /\ eht'.dir = eht.dir
          /\ Len(eht'.buckets) = Len(eht.buckets)
          /\ \A id \in 1 .. Len(eht.buckets) : eht'.buckets[id].depth = eht.buckets[id].depth
          /\ \A k \in DOMAIN eht_last \ {eht_ret'.key} : EhtLookup(eht', k) = EhtLookup(eht, k)]_vars

\* the buckets the directory references
ReferencedBuckets(t) == {t.dir[i] : i \in 1 .. Len(t.dir)}

\* C28: after any sequence of Insert and Remove calls NumBuckets is the number
\* of distinct buckets the directory references; it is 1 in a new table and
\* grows by one with every bucket a split allocates; it is 6 at the end of
\* LocalDepthTest and of GetNumBucketsTest.
C28_NumBucketsCountsBuckets ==
    /\ (eht_ret.op = "none" /\ eht # AgedTable) => eht.num_buckets = 1
    /\ ~eht.stuck => /\ eht.num_buckets = Len(eht.buckets)
                     /\ eht.num_buckets = Cardinality(ReferencedBuckets(eht))
    /\ (/\ eht_run.test \in {"LocalDepthTest", "GetNumBucketsTest"}
        /\ eht_run.pos = Len(TestCalls(eht_run.test))) => eht.num_buckets = 6

\* the parts of C28 that hold: the count of the allocations, and the tests
C28_CountsAllocations ==
    /\ (eht_ret.op = "none" /\ eht # AgedTable) => eht.num_buckets = 1
    /\ ~eht.stuck => eht.num_buckets = Len(eht.buckets)
    /\ (/\ eht_run.test \in {"LocalDepthTest", "GetNumBucketsTest"}
        /\ eht_run.pos = Len(TestCalls(eht_run.test))) => eht.num_buckets = 6

\* the local depths of directory slots 0 .. n - 1
LocalDepths(t, n) == [i \in 1 .. n |-> BucketAt(t, i - 1).depth]

\* C29: with bucket size 2, the inserts (1,a), (2,b), ..., (9,i) in this order
\* give global depth 3 and local depths 2, 3, 2, 2 of slots 0 to 3; the Find
\* calls that follow return i for 9, h for 8, b for 2 and report 10 absent;
\* every slot has local depth 1 after the insert of key 4 and local depth 2
\* after the insert of key 6.
C29_SeedScenario ==
    eht_run.test \in {"SampleTest", "InsertSplitTest"} =>
        /\ ~eht.stuck
        /\ eht_run.pos = 4 => LocalDepths(eht, Len(eht.dir)) = <<1, 1>>
        /\ eht_run.pos = 6 => LocalDepths(eht, Len(eht.dir)) = <<2, 2, 2, 2>>
        /\ eht_run.pos >= 9 => /\ eht.global_depth = 3
                              /\ LocalDepths(eht, 4) = <<2, 3, 2, 2>>
        /\ eht_run.pos = 10 => eht_ret.ok /\ eht_ret.value = "i"
        /\ eht_run.pos = 11 => eht_ret.ok /\ eht_ret.value = "h"
        /\ eht_run.pos = 12 => eht_ret.ok /\ eht_ret.value = "b"
        /\ eht_run.pos = 13 => ~eht_ret.ok

C29_Witness ==
    /\ eht_run.test = "SampleTest"
    /\ eht_run.pos = 13
    /\ eht_ret.op = "Find" /\ eht_ret.key = 10
    /\ eht.global_depth = 3

C21_FlushAllPagesFlushesResident ==
    bpm_ret.op = "FlushAllPages" =>
        \A f \in 1 .. bpm.pool_size :
            bpm.pages[f].page_id # INVALID_PAGE_ID =>
                /\ ~bpm.pages[f].is_dirty
                /\ ReadPage(bpm, bpm.pages[f].page_id) = bpm.pages[f].data

\* the part of C21 that holds: the pages with an id below next_page_id_ that the
\* page table knows
C21_FlushAllPagesFlushesAllocated ==
    bpm_ret.op = "FlushAllPages" =>
        \A f \in 1 .. bpm.pool_size :
            (/\ bpm.pages[f].page_id # INVALID_PAGE_ID
             /\ bpm.pages[f].page_id < bpm.next_page_id
             /\ FrameOf(bpm, bpm.pages[f].page_id) = <<TRUE, f - 1>>) =>
                /\ ~bpm.pages[f].is_dirty
                /\ ReadPage(bpm, bpm.pages[f].page_id) = bpm.pages[f].data

\* C22: every public method of the buffer pool runs as one atomic step with
\* respect to the other calls: while a FlushAllPages() call is in progress no
\* NewPage, FetchPage, UnpinPage or DeletePage of another thread takes effect,
\* and the call runs to its end.
C22_MethodsAtomic ==
    /\ [][bpm_flush.pc # "idle" =>
              bpm_ret'.op \notin {"NewPage", "FetchPage", "UnpinPage", "DeletePage"}]_vars
    /\ [](bpm_flush.pc # "aborted")

\* the part of C22 that holds: page ids and frames of the NewPage calls differ
\* as long as the pages are resident
C22_NewPagesDiffer ==
    \A f, g \in 1 .. bpm.pool_size :
        (bpm.pages[f].page_id # INVALID_PAGE_ID /\ bpm.pages[f].page_id = bpm.pages[g].page_id)
            => f = g

\* what GetValue finds for every key, {-1} where the call does not return
Found(c) ==
    [k \in TreeKeys |->
        Val([r \in {GetValue(Enter(c), k)} |->
            IF Faulted(r) THEN {-1} ELSE IF r.ret[1] THEN r.ret[2].values ELSE {}])]

\* the index after the two calls one after the other: the Insert of the second
\* thread last, and first
OtherThenInsert(th) ==
    Val([c \in {ApplyCall(th.entry, th.other)} |->
        IF Faulted(c) THEN c ELSE Insert(Enter(c), th.locals.key, th.locals.value)])

InsertThenOther(th) ==
    Val([c \in {Insert(Enter(th.entry), th.locals.key, th.locals.value)} |->
        IF Faulted(c) THEN c ELSE ApplyCall(c, th.other)])

\* C24: when an Insert has run concurrently with an Insert or Remove call of
\* another thread and both have returned, the index holds what it holds after
\* the two calls in one of the two sequential orders (two inserts of distinct
\* keys into one leaf are both found).
C24_ConcurrentCallsSerialize ==
    (/\ tree_thread.pc = "returned"
     /\ tree.fault = "none"
     /\ ~Faulted(OtherThenInsert(tree_thread))
     /\ ~Faulted(InsertThenOther(tree_thread)))
        => Found(tree) \in {Found(OtherThenInsert(tree_thread)),
                            Found(InsertThenOther(tree_thread))}

\* an Insert that no other call interrupts leaves what Insert leaves
C24_AloneIsInsert ==
    (tree_thread.pc = "returned" /\ tree_thread.other = NoCall /\ tree.fault = "none")
        => Found(tree) = Found(InsertThenOther(tree_thread))

\* the number of levels from page_id down to a leaf, through the first child
RECURSIVE HeightFrom(_, _, _)
HeightFrom(t, page_id, depth) ==
    IF ~IsTreePageId(t, page_id) \/ depth = 0 THEN 0
    ELSE IF IsLeafPage(PageImage(t, page_id)) THEN 1
    ELSE 1 + HeightFrom(t, ValueAt(PageImage(t, page_id), 0), depth - 1)

\* the first leaf under page_id
RECURSIVE FirstLeaf(_, _, _)
FirstLeaf(t, page_id, depth) ==
    IF ~IsTreePageId(t, page_id) \/ depth = 0 THEN INVALID_PAGE_ID
    ELSE IF IsLeafPage(PageImage(t, page_id)) THEN page_id
    ELSE FirstLeaf(t, ValueAt(PageImage(t, page_id), 0), depth - 1)

\* the keys of the leaves from page_id on, leaf after leaf along next_page_id
RECURSIVE ChainFrom(_, _, _)
ChainFrom(t, page_id, n) ==
    IF page_id = INVALID_PAGE_ID \/ n = 0 THEN <<>>
    ELSE <<[i \in 1 .. PageImage(t, page_id).size |-> KeyAt(PageImage(t, page_id), i - 1)]>>
             \o ChainFrom(t, PageImage(t, page_id).next_page_id, n - 1)

LeafChain(t) ==
    ChainFrom(t, FirstLeaf(t, t.root_page_id, Cardinality(SeedKeys)), Cardinality(SeedKeys))

LeafPageIds(t) == {p \in TreePageIds(t) : IsLeafPage(PageImage(t, p))}

SeedInserted == tree_hist.ops = Cardinality(SeedKeys)
SeedRemovedAll == tree_hist.ops = Cardinality(SeedKeys) + 2 + Len(SeedRemoved)

C31_PageIdsIncrease ==
    [][/\ bpm'.next_page_id >= bpm.next_page_id
       /\ bpm_ret'.op = "NewPage" /\ bpm_ret'.ok =>
              /\ bpm_ret'.page_id >= bpm.next_page_id
              /\ bpm_ret'.page_id < bpm'.next_page_id
       /\ bpm_ret'.op = "NewPage" /\ ~bpm_ret'.ok =>
              bpm'.next_page_id = bpm.next_page_id]_vars

\* NewPage has returned a page in a frame that DeletePage had put back on the
\* free list behind a frame of a higher number
C31_Witness ==
    /\ bpm_ret.op = "NewPage" /\ bpm_ret.ok
    /\ bpm.free_list # <<>>
    /\ bpm.free_list[Len(bpm.free_list)] < bpm_ret.frame_id
    /\ bpm_ret.page_id > 1

\* NewPage has failed with every frame pinned, pages having been allocated
C31_FailedNewPage ==
    /\ bpm_ret.op = "NewPage" /\ ~bpm_ret.ok
    /\ bpm.next_page_id > 0

\* C38: a frame that holds a page with pin count 0 has its dirty flag clear,
\* UnpinPage writing a dirty page and clearing the flag when the pin count
\* drops to 0; and the frame that the replacer gives NewPage or FetchPage as
\* its victim is never dirty, so that the write in the eviction path is not
\* taken.
C38_UnpinnedIsClean ==
    /\ [](\A f \in Frames(bpm) :
             bpm.pages[f + 1].page_id # INVALID_PAGE_ID /\ bpm.pages[f + 1].pin_count = 0
                 => ~bpm.pages[f + 1].is_dirty)
    /\ [][(/\ bpm_ret'.op \in {"NewPage", "FetchPage"} /\ bpm_ret'.ok
           /\ bpm_ret'.op = "FetchPage" => bpm_ret'.from_disk
           /\ bpm.free_list = <<>>)
             => ~bpm.pages[bpm_ret'.frame_id + 1].is_dirty]_vars

\* the last pin of a page whose bytes were changed has been given up with
\* is_dirty = true: the bytes are on disk and the flag is clear
C38_Witness ==
    /\ bpm_ret.op = "UnpinPage" /\ bpm_ret.ok /\ bpm_ret.is_dirty
    /\ bpm.pages[bpm_ret.frame_id + 1].page_id = bpm_ret.page_id
    /\ bpm.pages[bpm_ret.frame_id + 1].pin_count = 0
    /\ ~bpm.pages[bpm_ret.frame_id + 1].is_dirty
    /\ bpm.pages[bpm_ret.frame_id + 1].data # ZeroData
    /\ ReadPage(bpm, bpm_ret.page_id) = bpm.pages[bpm_ret.frame_id + 1].data

\* a frame whose page had been unpinned dirty has been taken as the victim
C38_VictimWasWritten ==
    /\ bpm_ret.op \in {"NewPage", "FetchPage"} /\ bpm_ret.ok
    /\ bpm.free_list = <<>>
    /\ \E p \in DOMAIN bpm_promised :
           /\ bpm_promised[p] # {}
           /\ FramesOf(bpm, p) = {}
           /\ ReadPage(bpm, p) \in bpm_promised[p]

(***************************************************************************)
(* LRU-K replacer: Evict, Remove and RecordAccess                          *)
(***************************************************************************)
\* C39: Evict() and Remove(fid) discard the whole access history of the frame
\* they remove: the frame is tracked no more, and when its id is recorded
\* again its history is that one access; with k >= 2 it is then among the
\* frames with fewer than k accesses, which Evict takes before the others, the
\* one with the earliest first access first.
C39_HistoryReset ==
    [][/\ rep_ret'.op = "Evict" /\ rep_ret'.ok =>
              rep_ret'.frame_id \notin DOMAIN Histories(rep')
       /\ rep_ret'.op = "Remove" /\ ~rep'.aborted =>
              rep_ret'.frame_id \notin DOMAIN Histories(rep')
       /\ rep_ret'.op = "RecordAccess" /\ rep_ret'.frame_id \in rep_dropped
            /\ rep_ret'.frame_id \notin DOMAIN Histories(rep) =>
              /\ Histories(rep')[rep_ret'.frame_id] = <<rep'.current_timestamp>>
              /\ rep.k >= 2 => rep_ret'.frame_id \in YoungFrames(rep')
       /\ rep_ret'.op = "Evict" /\ YoungFrames(rep) # {} =>
              /\ rep_ret'.frame_id \in YoungFrames(rep)
              /\ \A g \in YoungFrames(rep) :
                     rep.frame_map[rep_ret'.frame_id][1] <= rep.frame_map[g][1]]_vars

\* a frame that had been evicted or removed and was recorded again has been
\* evicted on its one new access, while a frame with k accesses stays
C39_Witness ==
    /\ rep_ret.op = "Evict" /\ rep_ret.ok
    /\ rep_ret.frame_id \in rep_dropped
    /\ rep.current_timestamp >= 5
    /\ \E g \in DOMAIN rep.frame_map : Len(rep.frame_map[g]) >= rep.k

\* C40: RecordAccess(fid) on an untracked frame starts tracking it as
\* evictable with the current timestamp as its history: Size() grows by 1 and
\* Evict() can return the frame without any SetEvictable call, and does when
\* it is the only evictable frame; on a tracked frame it appends the current
\* timestamp to the history of that frame and changes neither Size() nor the
\* evictability or the history of any frame.
C40_RecordAccessContract ==
    [][rep_ret'.op = "RecordAccess" =>
          /\ ~rep'.aborted
          /\ \A g \in DOMAIN Histories(rep) \ {rep_ret'.frame_id} :
                 /\ g \in DOMAIN Histories(rep') /\ Histories(rep')[g] = Histories(rep)[g]
                 /\ g \in DOMAIN rep'.frame_map <=> g \in DOMAIN rep.frame_map
          /\ DOMAIN Histories(rep') = DOMAIN Histories(rep) \cup {rep_ret'.frame_id}
          /\ IF rep_ret'.frame_id \notin DOMAIN Histories(rep)
             THEN /\ rep_ret'.frame_id \in DOMAIN rep'.frame_map
                  /\ rep'.frame_map[rep_ret'.frame_id] = <<rep'.current_timestamp>>
                  /\ ReplacerSize(rep') = ReplacerSize(rep) + 1
                  /\ \E order \in Orders(DOMAIN rep'.frame_map) :
                         ReplacerEvict(rep', order, INVALID_PAGE_ID)[2]
                  /\ DOMAIN rep'.frame_map = {rep_ret'.frame_id} =>
                         ReplacerEvict(rep', <<rep_ret'.frame_id>>, INVALID_PAGE_ID)[3]
                             = rep_ret'.frame_id
             ELSE /\ Histories(rep')[rep_ret'.frame_id]
                         = Append(Histories(rep)[rep_ret'.frame_id], rep'.current_timestamp)
                  /\ ReplacerSize(rep') = ReplacerSize(rep)
                  /\ rep_ret'.frame_id \in DOMAIN rep'.frame_map
                         <=> rep_ret'.frame_id \in DOMAIN rep.frame_map]_vars

\* RecordAccess has started tracking a frame, evictable, next to a frame that
\* is not evictable and an evictable one with two accesses
C40_Witness ==
    /\ rep_ret.op = "RecordAccess"
    /\ rep_ret.frame_id \in DOMAIN rep.frame_map
    /\ rep.frame_map[rep_ret.frame_id] = <<rep.current_timestamp>>
    /\ DOMAIN rep.non_evict_frames # {}
    /\ \E g \in DOMAIN rep.frame_map : Len(rep.frame_map[g]) = 2

\* RecordAccess has appended to the history of a frame that is not evictable
C40_TrackedFrame ==
    /\ rep_ret.op = "RecordAccess"
    /\ rep_ret.frame_id \in DOMAIN rep.non_evict_frames
    /\ Len(rep.non_evict_frames[rep_ret.frame_id]) = 2

(***************************************************************************)
(* B+ tree: the shape of the tree                                          *)
(***************************************************************************)
InternalPageIds(t) == TreePageIds(t) \ LeafPageIds(t)

\* the keys of the leaves of the subtree at page_id
SubtreeKeys(t, page_id) ==
    {KeyAt(PageImage(t, p), i) :
        <<p, i>> \in {pi \in (SubtreePageIds(t, page_id, MaxKey) \cap LeafPageIds(t))
                                 \X (0 .. Cardinality(SeedKeys)) :
                         pi[2] < PageImage(t, pi[1]).size}}

\* the keys of internal page d are in order and route to the subtrees that hold them
Routes(t, d) ==
    /\ \A i \in 1 .. d.size - 2 : KeyAt(d, i) < KeyAt(d, i + 1)
    /\ \A i \in 1 .. d.size - 1 :
           /\ \A k \in SubtreeKeys(t, ValueAt(d, i - 1)) : k < KeyAt(d, i)
           /\ \A k \in SubtreeKeys(t, ValueAt(d, i)) : k >= KeyAt(d, i)

\* C33: after every Insert and Remove, in every internal page the keys at the
\* indices 1 .. size - 1 are strictly increasing, every key stored under child
\* i - 1 is smaller than key(i) and every key stored under child i is at least
\* key(i); so after a redistribution from the right or the left sibling, too.
C33_SeparatorRouting ==
    tree.fault = "none" =>
        \A p \in InternalPageIds(tree) : Routes(tree, PageImage(tree, p))

\* C34: after every Insert and Remove every page that is listed as a child in
\* an internal page stores the id of that internal page as its parent id, also
\* the children moved by an internal split, merge or redistribution.
C34_ParentPointers ==
    tree.fault = "none" =>
        \A p \in InternalPageIds(tree) :
            \A i \in 0 .. PageImage(tree, p).size - 1 :
                PageImage(tree, ValueAt(PageImage(tree, p), i)).parent_page_id = p

\* the entries of leaf d, in the order of the page
LeafEntrySeq(d) == [i \in 1 .. d.size |-> ArrAt(d.array, i - 1)]

\* the entries s of a leaf with entry put in at its place in the key order
WithEntry(s, entry) ==
    (LET n == Cardinality({i \in 1 .. Len(s) : s[i][1] <= entry[1]}) IN
        [i \in 1 .. Len(s) + 1 |->
            IF i <= n THEN s[i] ELSE IF i = n + 1 THEN entry ELSE s[i - 1]])

\* the Insert of this step has split the leaf old into old and new
LeafSplitOf(old, new) ==
    (LET all == WithEntry(LeafEntrySeq(PageImage(tree, old)),
                          <<tree'.ret.key, ValueOf(tree'.ret.key)>>) IN
    (LET middle == Ceiling(tree.leaf_max_size) IN
        /\ LeafEntrySeq(PageImage(tree', old)) = SubSeq(all, 1, middle)
        /\ LeafEntrySeq(PageImage(tree', new)) = SubSeq(all, middle + 1, Len(all))
        /\ PageImage(tree', new).next_page_id = PageImage(tree, old).next_page_id
        /\ PageImage(tree', old).next_page_id = new))

\* C32: when an Insert splits a leaf, whether inserts or an earlier merge have
\* filled it, the old leaf keeps the entries below index Ceiling(leaf_max_size),
\* the new leaf gets all the other entries, so none is lost and none is in both
\* leaves, the new leaf takes over the old leaf's next pointer
\* and the old leaf's next pointer names the new leaf.
C32_LeafSplitKeepsEntries ==
    [][/\ tree'.ret.op = "Insert"
       /\ tree'.fault = "none"
       /\ tree.root_page_id # INVALID_PAGE_ID
       /\ tree'.bpm.next_page_id > tree.bpm.next_page_id
       => \E old \in 1 .. tree.bpm.next_page_id - 1 :
              /\ IsLeafPage(PageImage(tree, old))
              /\ LeafSplitOf(old, tree.bpm.next_page_id)]_vars

\* C36: after every Insert and Remove the page that GetRootPageId() names is
\* the only page of the tree whose header marks it as the root, also right
\* after a root split and right after the root was replaced by its only child.
C36_RootIdentity ==
    tree.fault = "none" /\ tree.root_page_id # INVALID_PAGE_ID =>
        \A p \in TreePageIds(tree) : IsRootPage(PageImage(tree, p)) <=> p = tree.root_page_id

\* C37: on a tree that is not empty Begin(key) returns an iterator on the entry
\* of key when key is in the tree, and the iterator End() when it is not; the
\* offset of the iterator is never negative nor past the entries of its leaf.
C37_BeginAtKey ==
    tree.ret.op = "Begin(key)" /\ tree.fault = "none" /\ ~IsEmpty(tree) =>
        IF tree.ret.key \in TreeKeySet(tree)
        THEN /\ tree.ret.it.page_id \in LeafPageIds(tree)
             /\ tree.ret.it.offset >= 0
             /\ tree.ret.it.offset < PageImage(tree, tree.ret.it.page_id).size
             /\ KeyAt(PageImage(tree, tree.ret.it.page_id), tree.ret.it.offset) = tree.ret.key
        ELSE tree.ret.it = End

\* page_id is in a frame of the pool of t
InPool(t, page_id) == \E f \in Frames(t.bpm) : t.bpm.pages[f + 1].page_id = page_id

\* C35: when a Remove merges two sibling pages, the right-hand page, which the
\* merge has emptied, is deleted from the buffer pool: after the call no page
\* of the tree names it as a child or as the next leaf, it is in no frame of the
\* pool (so it is not pinned either), and the leaf that took the entries of a
\* merged leaf has that leaf's former next pointer.
C35_MergeFreesPage ==
    [][tree'.ret.op = "Remove" /\ tree'.fault = "none" =>
           \A p \in TreePageIds(tree) \ (TreePageIds(tree') \cup {tree.root_page_id}) :
               /\ \A q \in LeafPageIds(tree') : PageImage(tree', q).next_page_id # p
               /\ ~InPool(tree', p)
               /\ IsLeafPage(PageImage(tree, p)) =>
                      \E q \in LeafPageIds(tree') :
                          /\ PageImage(tree, q).next_page_id = p
                          /\ PageImage(tree', q).next_page_id = PageImage(tree, p).next_page_id]_vars
=============================================================================
